---- MODULE Spec2Model ----
(***************************************************************************)
(* BloomWatch: bloom-window detection (src/src/analysis.py) and the bloom  *)
(* predictor (src/src/prediction_model.py) as state machines.              *)
(*                                                                         *)
(* Numbers: a vegetation index is an integer count of 1e-4 units (the      *)
(* MODIS scale factor), so 1.0 is ONE.  A residual standard deviation is   *)
(* a count of 1e-2 units, so 1.96 * std is 196 * std in 1e-4 units.        *)
(* Dates: <<year, month, day>>; NaT is the null date, NaN the null number. *)
(***************************************************************************)
EXTENDS Integers, Sequences, FiniteSets, TLC

ONE == 10000
NaN == 0 - (100 * ONE)
NA == 0 - 1
NaT == <<0, 0, 0>>

\* ------------------------------------------------------------------ bounds
MaxRows == 14
MaxForecastYears == 1
MaxObs == 4

\* ------------------------------------------------------------------ dates
Year(d) == d[1]
Month(d) == d[2]

DateLT(a, b) ==
    \/ a[1] < b[1]
    \/ a[1] = b[1] /\ a[2] < b[2]
    \/ a[1] = b[1] /\ a[2] = b[2] /\ a[3] < b[3]

\* pandas: every comparison with NaT is False
DateLE(a, b) == a # NaT /\ b # NaT /\ (a = b \/ DateLT(a, b))

IsLeap(y) == (y % 4 = 0 /\ y % 100 # 0) \/ y % 400 = 0

DaysInMonth(y, m) ==
    IF m = 2 THEN (IF IsLeap(y) THEN 29 ELSE 28)
    ELSE IF m \in {4, 6, 9, 11} THEN 30 ELSE 31

RECURSIVE DaysBeforeMonth(_, _)
DaysBeforeMonth(y, m) ==
    IF m <= 1 THEN 0 ELSE DaysBeforeMonth(y, m - 1) + DaysInMonth(y, m - 1)

\* proleptic Gregorian day number of a date
Ordinal(d) ==
    LET y == d[1] - 1
    IN  365 * y + (y \div 4) - (y \div 100) + (y \div 400)
        + DaysBeforeMonth(d[1], d[2]) + d[3]

\* (off - on).days
DaysBetween(on, off) == Ordinal(off) - Ordinal(on)

\* d + pd.offsets.MonthBegin(): the first day of the following month
MonthBegin(d) == IF d[2] = 12 THEN <<d[1] + 1, 1, 1>> ELSE <<d[1], d[2] + 1, 1>>

RECURSIVE AddMonths(_, _)
AddMonths(d, n) == IF n <= 0 THEN d ELSE AddMonths(MonthBegin(d), n - 1)

\* pd.date_range(start, periods=n, freq="MS") for a start on a month begin
DateRange(start, n) == [i \in 1..n |-> AddMonths(start, i - 1)]

\* ------------------------------------------------------------ sequences
RECURSIVE Insert(_, _)
Insert(x, s) ==
    IF s = <<>> THEN <<x>>
    ELSE IF x <= Head(s) THEN <<x>> \o s
    ELSE <<Head(s)>> \o Insert(x, Tail(s))

RECURSIVE SortInts(_)
SortInts(s) == IF s = <<>> THEN <<>> ELSE Insert(Head(s), SortInts(Tail(s)))

RECURSIVE NonNull(_)
NonNull(s) ==
    IF s = <<>> THEN <<>>
    ELSE IF Head(s) = NaN THEN NonNull(Tail(s))
    ELSE <<Head(s)>> \o NonNull(Tail(s))

Range(s) == {s[i] : i \in DOMAIN s}

Max(a, b) == IF a >= b THEN a ELSE b
Min(a, b) == IF a <= b THEN a ELSE b

\* Series.median(): of the non-null values (NaN when there is none)
Median(s) ==
    LET v == SortInts(NonNull(s))
        n == Len(v)
    IN  IF n = 0 THEN NaN
        ELSE IF n % 2 = 1 THEN v[(n + 1) \div 2]
        ELSE (v[n \div 2] + v[n \div 2 + 1]) \div 2

\* ------------------------------------------------------------ state
VARIABLES
    \* train_bloom_predictor (src/src/prediction_model.py)
    pc,                     \* position in train_bloom_predictor
    error,                  \* the exception raised ("" when none), and where
    probability_threshold,  \* argument, in 1e-4 units
    forecast_years,         \* argument
    loaded,                 \* the paths _load_csv was called on, in order, each
                            \* with the outcome of path.exists()
    features,               \* rows of features_csv as loaded
    bloom_periods,          \* rows of bloom_periods_csv as loaded
    df,                     \* the labelled monthly table
    train_df,               \* classifier training rows
    model_name,             \* classifier used
    regressor,              \* the fitted NDVI regressor (which function it is)
    residual_std,           \* in 1e-2 units
    future_dates,
    ndvi_history,           \* running NDVI history of the projection loop
    forecast_rows,
    forecast_records,
    result,                 \* BloomPredictionResult (table, ndvi_forecast)
    \* analyze_bloom_season (src/src/analysis.py)
    ndvi_csv,               \* data/raw/modis_ndvi_monthly.csv
    bloom_global_csv,       \* data/processed/bloom_periods_global.csv
    bloom_annual_csv,       \* data/processed/bloom_periods_annual.csv
    sensitivity_csv,        \* data/processed/bloom_threshold_sensitivity.csv
    thr_used,               \* year -> threshold handed to _detect_bloom in the last run
    last_call,              \* mode and outcome of the last analyze_bloom_season call
    repeated,               \* the last call had the mode of the call before it
    \* correlate_rain_ndvi (src/src/analysis.py)
    features_csv,           \* data/processed/features_monthly.csv as correlate reads it
    correlation_csv,        \* data/processed/rain_ndvi_correlation.csv
    lag_tables,             \* the table `tmp` of each lag of the last run, with the
                            \* date each shifted precipitation value came from
    corr_call,              \* max_lag and outcome of the last correlate_rain_ndvi call
    \* build_features_monthly (src/src/data_collector.py)
    raw_dir,                \* source name -> monthly csv of data/raw (or absent)
    out_path,               \* the master table written to out_path
    frames,                 \* the list `frames` of the last run
    build_call,             \* outcome and returned row count of the last run
    \* the monthly table loaders
    month_csv,              \* a monthly csv file
    month_table,            \* outcome of load_month_csv (utils)
    fusion_table,           \* outcome of _load_month_csv (data_collector)
    \* the Earth Engine initialization
    _initialized,           \* module flag of gee_auth
    _INITIALIZED,           \* module flag of main
    ee_initialize_calls,    \* calls of ee.Initialize so far
    ee_successes,           \* those that returned
    gee_call                \* the last call: operation, force, outcome

pvars == <<pc, error, probability_threshold, forecast_years, loaded, features,
           bloom_periods, df, train_df, model_name, regressor, residual_std,
           future_dates, ndvi_history, forecast_rows, forecast_records, result>>
avars == <<ndvi_csv, bloom_global_csv, bloom_annual_csv, sensitivity_csv,
           thr_used, last_call, repeated>>
cvars == <<features_csv, correlation_csv, lag_tables, corr_call>>
fvars == <<raw_dir, out_path, frames, build_call>>
lvars == <<month_csv, month_table, fusion_table>>
gvars == <<_initialized, _INITIALIZED, ee_initialize_calls, ee_successes, gee_call>>
vars == <<pvars, avars, cvars, fvars, lvars, gvars>>

\* ------------------------------------------- prediction_model.py: helpers
ndvi_lags == <<1, 2, 12>>

\* mutant: reads one position too far back (values[-lag - 1])
LagValueOffByOne(values, lag) ==
    IF Len(values) >= lag + 1 THEN values[Len(values) - lag]
    ELSE IF values # <<>> THEN values[1]
    ELSE 0

LagValue(values, lag) ==
    IF Len(values) >= lag THEN values[Len(values) - lag + 1]
    ELSE IF values # <<>> THEN values[1]
    ELSE 0

\* lag -> value using the most recent observations
_add_lag_features(series, lags) == [lag \in Range(lags) |-> LagValue(series, lag)]

\* mutant: the window's end is exclusive (date < end)
AttachRecordExclusiveEnd(d, row) ==
    IF ~ \E i \in DOMAIN d : d[i].year = row.year THEN d
    ELSE [i \in DOMAIN d |->
            LET r == IF d[i].year = row.year
                     THEN [d[i] EXCEPT !.label_available = TRUE]
                     ELSE d[i]
            IN  IF DateLE(row.bloom_start, r.date) /\ DateLE(r.date, row.bloom_end)
                   /\ r.date # row.bloom_end
                THEN [r EXCEPT !.is_bloom = 1]
                ELSE r]

\* one pass of the loop over bloom_periods.iterrows()
AttachRecord(d, row) ==
    IF ~ \E i \in DOMAIN d : d[i].year = row.year THEN d
    ELSE [i \in DOMAIN d |->
            LET r == IF d[i].year = row.year
                     THEN [d[i] EXCEPT !.label_available = TRUE]
                     ELSE d[i]
            IN  IF DateLE(row.bloom_start, r.date) /\ DateLE(r.date, row.bloom_end)
                THEN [r EXCEPT !.is_bloom = 1]
                ELSE r]

RECURSIVE AttachAll(_, _)
AttachAll(d, periods) ==
    IF periods = <<>> THEN d
    ELSE AttachAll(AttachRecord(d, Head(periods)), Tail(periods))

\* rows without a label get is_bloom = pd.NA
ClearUnlabelled(d) ==
    [i \in DOMAIN d |->
        IF d[i].label_available THEN d[i] ELSE [d[i] EXCEPT !.is_bloom = NA]]

_attach_labels(feats, periods) ==
    LET d0 == [i \in DOMAIN feats |->
                [date |-> feats[i].date, NDVI |-> feats[i].NDVI,
                 year |-> Year(feats[i].date), is_bloom |-> 0,
                 label_available |-> FALSE]]
    IN  ClearUnlabelled(AttachAll(d0, periods))

\* a column that is entirely NaN becomes 0.0 (the NDVI column of the model)
_prepare_features(d) ==
    IF \A i \in DOMAIN d : d[i].NDVI = NaN
    THEN [i \in DOMAIN d |-> [d[i] EXCEPT !.NDVI = 0]]
    ELSE d

IsLabelled(r) == r.label_available

\* mutant: every row is a training row
TrainingRowsAll(d) == d

\* train_df = df[df["label_available"]]
TrainingRows(d) == SelectSeq(d, IsLabelled)

\* y_train.unique()
UniqueLabels(t) == {t[i].is_bloom : i \in DOMAIN t}

\* mutant: only the lag-1 column is required to be present
RegTrainIndexLagOneOnly(d) ==
    {i \in DOMAIN d : i - 1 >= 1 /\ d[i - 1].NDVI # NaN}

\* indices of lagged.dropna(subset = the three lag columns)
RegTrainIndex(d) ==
    {i \in DOMAIN d :
        \A j \in DOMAIN ndvi_lags :
            i - ndvi_lags[j] >= 1 /\ d[i - ndvi_lags[j]].NDVI # NaN}

\* mutant: only the lower end is clamped
ClipLowerOnly(x, lo, hi) == IF x < lo THEN lo ELSE x

\* np.clip
Clip(x, lo, hi) == IF x < lo THEN lo ELSE IF x > hi THEN hi ELSE x

\* The fitted regressor is a deterministic function of the feature row; which
\* function depends on the training data.  These are the functions considered.
RegressorKinds == {"persist", "seasonal", "huge", "negative"}

Predict(reg, lag_map, month) ==
    CASE reg = "persist"  -> lag_map[1] + 137 * month
      [] reg = "seasonal" -> lag_map[12] + 2 * (lag_map[1] - lag_map[2])
      [] reg = "huge"     -> 5 * ONE + lag_map[2]
      [] reg = "negative" -> 0 - (3 * ONE) - lag_map[1]

\* residual_std values considered (1e-2 units): zero, small, larger than 1.0
ResidualStds == {0, 3, 200}

\* df["NDVI"].fillna(df["NDVI"].median()).tolist()
FillNaMedian(d) ==
    LET col == [i \in DOMAIN d |-> d[i].NDVI]
        med == Median(col)
    IN  [i \in DOMAIN col |-> IF col[i] = NaN THEN med ELSE col[i]]

\* lines 232-234: front padding up to max(ndvi_lags) values
PadHistory(h) ==
    LET max_lag == CHOOSE m \in Range(ndvi_lags) : \A l \in Range(ndvi_lags) : l <= m
    IN  IF Len(h) < max_lag THEN [i \in 1..(max_lag - Len(h)) |-> h[1]] \o h ELSE h

RECURSIVE MaxDate(_)
MaxDate(s) ==
    IF Len(s) = 1 THEN s[1]
    ELSE LET m == MaxDate(Tail(s)) IN IF DateLT(m, Head(s)) THEN Head(s) ELSE m

HorizonMonths(years) == years * 12

\* mutant: the range starts at the last historical month
FutureDatesFromLast(d, years) ==
    DateRange(MaxDate([i \in DOMAIN d |-> d[i].date]), HorizonMonths(years))

\* pd.date_range(last_date + MonthBegin(), periods = horizon, freq = "MS")
FutureDates(d, years) ==
    DateRange(MonthBegin(MaxDate([i \in DOMAIN d |-> d[i].date])), HorizonMonths(years))

\* the body of `for date in future_dates`: lines 240-289
ProjectMonth(history, date, reg, std) ==
    LET lag_map == _add_lag_features(history, ndvi_lags)
        ndvi_pred == Clip(Predict(reg, lag_map, Month(date)), 0, ONE)
    IN  [history |-> Append(history, ndvi_pred),
         row |-> [date |-> date, NDVI |-> ndvi_pred, year |-> NA, lags |-> lag_map,
                  label_available |-> FALSE, is_bloom |-> NA, status |-> "forecast"],
         record |-> [date |-> date, ndvi |-> ndvi_pred,
                     lower |-> IF std # 0 THEN Max(0, ndvi_pred - 196 * std) ELSE ndvi_pred,
                     upper |-> IF std # 0 THEN Min(ONE, ndvi_pred + 196 * std) ELSE ndvi_pred,
                     source |-> "forecast"]]

\* ------------------------------------------- prediction_model.py: inputs
\* probability_threshold values tried (1e-4 units): below, at and above both ends
ThresholdInputs == {0 - 1, 0, 5000, ONE, ONE + 1}
ForecastYearInputs == (0 - 1)..MaxForecastYears

FirstDate == <<2020, 11, 1>>

\* The monthly master table is written by build_features_monthly: first-of-month
\* dates in increasing order, one row per date, NDVI possibly null.
FeatureShapes == {"ramp", "flat", "allnan", "nan_first", "nan_last", "gap"}
FeatureLens == {0, 1, 12, 13, MaxRows}

ShapeNDVI(shape, i, n) ==
    CASE shape = "flat" -> 5000
      [] shape = "allnan" -> NaN
      [] shape = "nan_first" -> IF i = 1 THEN NaN ELSE (400 + 600 * i) % ONE
      [] shape = "nan_last" -> IF i = n THEN NaN ELSE (400 + 600 * i) % ONE
      [] OTHER -> (400 + 600 * i) % ONE

ShapeDate(shape, i) ==
    IF shape = "gap" /\ i > 2 THEN AddMonths(FirstDate, i + 2)
    ELSE AddMonths(FirstDate, i - 1)

FeatureTable(n, shape) ==
    [i \in 1..n |-> [date |-> ShapeDate(shape, i), NDVI |-> ShapeNDVI(shape, i, n)]]

Absent == [exists |-> FALSE, rows |-> <<>>]
File(rows) == [exists |-> TRUE, rows |-> rows]

FeatureFiles ==
    {Absent} \cup {File(FeatureTable(n, s)) : n \in FeatureLens, s \in FeatureShapes}

\* The bloom-window table is written by analyze_bloom_season: one record per
\* year, a window inside that year; the data model also allows a null window.
\* (The monthly rows of 2020 are November and December: an early window there
\* labels them as a null window does.)
WindowOptions == {"none", "null", "early", "late"}

BloomRecord(y, opt) ==
    CASE opt = "none" -> <<>>
      [] opt = "null" -> <<[year |-> y, bloom_start |-> NaT, bloom_end |-> NaT,
                            duration_days |-> 0]>>
      [] opt = "early" -> <<[year |-> y, bloom_start |-> <<y, 1, 1>>,
                             bloom_end |-> <<y, 2, 1>>,
                             duration_days |-> DaysBetween(<<y, 1, 1>>, <<y, 2, 1>>)]>>
      [] opt = "late" -> <<[year |-> y, bloom_start |-> <<y, 11, 1>>,
                            bloom_end |-> <<y, 12, 1>>,
                            duration_days |-> DaysBetween(<<y, 11, 1>>, <<y, 12, 1>>)]>>

BloomFiles ==
    {Absent} \cup
    {File(BloomRecord(2019, a) \o BloomRecord(2020, b) \o BloomRecord(2021, c)) :
        a \in {"none", "late"}, b \in WindowOptions \ {"early"}, c \in WindowOptions}

\* ------------------------------------------- train_bloom_predictor
NoError == [type |-> "", at |-> ""]
Raise(type, at) == [type |-> type, at |-> at]

InitPredictor ==
    /\ pc = "start"
    /\ error = NoError
    /\ probability_threshold \in ThresholdInputs
    /\ forecast_years \in ForecastYearInputs
    /\ loaded = <<>>
    /\ features = <<>>
    /\ bloom_periods = <<>>
    /\ df = <<>>
    /\ train_df = <<>>
    /\ model_name = ""
    /\ regressor = ""
    /\ residual_std = 0
    /\ future_dates = <<>>
    /\ ndvi_history = <<>>
    /\ forecast_rows = <<>>
    /\ forecast_records = <<>>
    /\ result = <<>>

\* mutant: the ends of the interval are accepted
ThresholdRejectedInclusive(t) == ~ (0 <= t /\ t <= ONE)

\* `not 0 < probability_threshold < 1`
ThresholdRejected(t) == ~ (0 < t /\ t < ONE)
\* `forecast_years <= 0`
YearsRejected(y) == y <= 0

\* lines 131-134
ValidateArguments ==
    /\ pc = "start"
    /\ IF ThresholdRejected(probability_threshold)
       THEN pc' = "raised" /\ error' = Raise("ValueError", "probability_threshold")
       ELSE IF YearsRejected(forecast_years)
       THEN pc' = "raised" /\ error' = Raise("ValueError", "forecast_years")
       ELSE pc' = "validated" /\ error' = error
    /\ UNCHANGED <<probability_threshold, forecast_years, loaded, features,
                   bloom_periods, df, train_df, model_name, regressor, residual_std,
                   future_dates, ndvi_history, forecast_rows, forecast_records, result>>
    /\ UNCHANGED <<avars, cvars, fvars, lvars, gvars>>

\* mutant: a missing file is read as a table without rows
LoadCsvMissingAsEmpty(f, path) == [error |-> NoError, rows |-> f.rows]

\* lines 35-38: `if not path.exists(): raise FileNotFoundError`, else read_csv
_load_csv(f, path) ==
    IF ~ f.exists
    THEN [error |-> Raise("FileNotFoundError", path), rows |-> <<>>]
    ELSE [error |-> NoError, rows |-> f.rows]

\* lines 139-141: _load_csv(features_path), then the empty check
LoadFeatures ==
    /\ pc = "validated"
    /\ \E f \in FeatureFiles :
        LET r == _load_csv(f, "features_csv")
        IN  /\ loaded' = Append(loaded, [path |-> "features_csv", exists |-> f.exists])
            /\ IF r.error # NoError
               THEN pc' = "raised" /\ error' = r.error /\ features' = features
               ELSE /\ features' = r.rows
                    /\ IF r.rows = <<>>
                       THEN pc' = "raised" /\ error' = Raise("ValueError", "features.empty")
                       ELSE pc' = "features_loaded" /\ error' = error
    /\ UNCHANGED <<probability_threshold, forecast_years,
                   bloom_periods, df, train_df, model_name, regressor, residual_std,
                   future_dates, ndvi_history, forecast_rows, forecast_records, result>>
    /\ UNCHANGED <<avars, cvars, fvars, lvars, gvars>>

\* lines 143-149
LoadBloomPeriods ==
    /\ pc = "features_loaded"
    /\ \E f \in BloomFiles :
        LET r == _load_csv(f, "bloom_periods_csv")
        IN  /\ loaded' = Append(loaded, [path |-> "bloom_periods_csv", exists |-> f.exists])
            /\ IF r.error # NoError
               THEN pc' = "raised" /\ error' = r.error /\ bloom_periods' = bloom_periods
               ELSE /\ bloom_periods' = r.rows
                    /\ IF r.rows = <<>>
                       THEN pc' = "raised"
                            /\ error' = Raise("ValueError", "bloom_periods.empty")
                       ELSE pc' = "bloom_loaded" /\ error' = error
    /\ UNCHANGED <<probability_threshold, forecast_years, features,
                   df, train_df, model_name, regressor, residual_std,
                   future_dates, ndvi_history, forecast_rows, forecast_records, result>>
    /\ UNCHANGED <<avars, cvars, fvars, lvars, gvars>>

\* lines 151-178: labels, feature columns, classifier
FitClassifier ==
    /\ pc = "bloom_loaded"
    /\ LET d == _prepare_features(_attach_labels(features, bloom_periods))
           t == TrainingRows(d)
       IN  /\ df' = d
           /\ train_df' = t
           /\ IF t = <<>>
              THEN /\ pc' = "raised" /\ error' = Raise("ValueError", "train_df.empty")
                   /\ model_name' = model_name
              ELSE /\ pc' = "classifier_fitted" /\ error' = error
                   /\ model_name' = IF Cardinality(UniqueLabels(t)) < 2
                                    THEN "DummyClassifier"
                                    ELSE "HistGradientBoostingClassifier"
    /\ UNCHANGED <<probability_threshold, forecast_years, loaded, features,
                   bloom_periods, regressor, residual_std,
                   future_dates, ndvi_history, forecast_rows, forecast_records, result>>
    /\ UNCHANGED <<avars, cvars, fvars, lvars, gvars>>

\* lines 181-215: the NDVI regressor.  fit() rejects a NaN target.
FitRegressor ==
    /\ pc = "classifier_fitted"
    /\ LET reg_train == RegTrainIndex(df)
       IN  IF reg_train = {}
           THEN /\ pc' = "raised" /\ error' = Raise("ValueError", "reg_train.empty")
                /\ UNCHANGED <<regressor, residual_std>>
           ELSE IF \E i \in reg_train : df[i].NDVI = NaN
           THEN /\ pc' = "raised" /\ error' = Raise("ValueError", "reg_pipeline.fit")
                /\ UNCHANGED <<regressor, residual_std>>
           ELSE /\ pc' = "regressor_fitted" /\ error' = error
                /\ regressor' \in RegressorKinds
                /\ residual_std' \in ResidualStds
    /\ UNCHANGED <<probability_threshold, forecast_years, loaded, features,
                   bloom_periods, df, train_df, model_name,
                   future_dates, ndvi_history, forecast_rows, forecast_records, result>>
    /\ UNCHANGED <<avars, cvars, fvars, lvars, gvars>>

\* lines 218-237: horizon, future dates, the initial running history
StartProjection ==
    /\ pc = "regressor_fitted"
    /\ LET h == FillNaMedian(df)
       IN  IF h = <<>>
           THEN /\ pc' = "raised" /\ error' = Raise("ValueError", "ndvi_history.empty")
                /\ UNCHANGED <<future_dates, ndvi_history>>
           ELSE /\ pc' = "projecting" /\ error' = error
                /\ future_dates' = FutureDates(df, forecast_years)
                /\ ndvi_history' = PadHistory(h)
    /\ UNCHANGED <<probability_threshold, forecast_years, loaded, features,
                   bloom_periods, df, train_df, model_name, regressor, residual_std,
                   forecast_rows, forecast_records, result>>
    /\ UNCHANGED <<avars, cvars, fvars, lvars, gvars>>

\* one iteration of `for date in future_dates`
ProjectStep ==
    /\ pc = "projecting"
    /\ Len(forecast_rows) < Len(future_dates)
    /\ LET step == ProjectMonth(ndvi_history, future_dates[Len(forecast_rows) + 1],
                                regressor, residual_std)
       IN  /\ ndvi_history' = step.history
           /\ forecast_rows' = Append(forecast_rows, step.row)
           /\ forecast_records' = Append(forecast_records, step.record)
    /\ UNCHANGED <<pc, error, probability_threshold, forecast_years, loaded, features,
                   bloom_periods, df, train_df, model_name, regressor, residual_std,
                   future_dates, result>>
    /\ UNCHANGED <<avars, cvars, fvars, lvars, gvars>>

RECURSIVE InsertByDate(_, _)
InsertByDate(r, s) ==
    IF s = <<>> THEN <<r>>
    ELSE IF DateLT(r.date, Head(s).date) THEN <<r>> \o s
    ELSE <<Head(s)>> \o InsertByDate(r, Tail(s))

\* sort_values("date")
RECURSIVE SortByDate(_)
SortByDate(s) ==
    IF s = <<>> THEN <<>>
    ELSE InsertByDate(s[Len(s)], SortByDate(SubSeq(s, 1, Len(s) - 1)))

\* lines 291-297: df has no status column, so its rows come out of the concat
\* with a null status; np.where(label_available, "historical", status.fillna("forecast"))
CombinedTable(d, future) ==
    LET observed == [i \in DOMAIN d |->
                        [date |-> d[i].date, NDVI |-> d[i].NDVI,
                         label_available |-> d[i].label_available,
                         is_bloom |-> d[i].is_bloom, ndvi_source |-> "observed",
                         status |-> ""]]
        projected == [i \in DOMAIN future |->
                        [date |-> future[i].date, NDVI |-> future[i].NDVI,
                         label_available |-> future[i].label_available,
                         is_bloom |-> future[i].is_bloom, ndvi_source |-> "forecast",
                         status |-> future[i].status]]
        all == observed \o projected
    IN  [i \in DOMAIN all |->
            [all[i] EXCEPT !.status =
                IF all[i].label_available THEN "historical"
                ELSE IF all[i].status = "" THEN "forecast"
                ELSE all[i].status]]

\* lines 327-335
NdviSeries(d, records) ==
    LET historical == [i \in DOMAIN d |->
                          [date |-> d[i].date, ndvi |-> d[i].NDVI, lower |-> NaN,
                           upper |-> NaN, source |-> "historical"]]
    IN  SortByDate(historical \o records)

\* BloomPredictionResult.forecast_rows
ForecastRowsOf(res) ==
    LET IsFuture(r) == r.status \in {"forecast", "future"}
    IN  SelectSeq(res.table, IsFuture)

\* lines 308-322: roc_auc is computed only when both classes were trained on
RocAuc(t) == IF Cardinality(UniqueLabels(t)) >= 2 THEN "defined" ELSE "undefined"

\* lines 291-358.  A DummyClassifier fitted on one class gives predict_proba one
\* column, so `predict_proba(X_all)[:, 1]` (line 301) raises IndexError.
CombineAndReturn ==
    /\ pc = "projecting"
    /\ Len(forecast_rows) = Len(future_dates)
    /\ IF model_name = "DummyClassifier"
       THEN /\ pc' = "raised" /\ error' = Raise("IndexError", "predict_proba")
            /\ result' = result
       ELSE /\ pc' = "done" /\ error' = error
            /\ result' = [table |-> CombinedTable(df, forecast_rows),
                          ndvi_forecast |-> NdviSeries(df, forecast_records),
                          model |-> model_name,
                          roc_auc |-> RocAuc(train_df),
                          months |-> HorizonMonths(forecast_years)]
    /\ UNCHANGED <<probability_threshold, forecast_years, loaded, features,
                   bloom_periods, df, train_df, model_name, regressor, residual_std,
                   future_dates, ndvi_history, forecast_rows, forecast_records>>
    /\ UNCHANGED <<avars, cvars, fvars, lvars, gvars>>

NextPredictor ==
    \/ ValidateArguments
    \/ LoadFeatures
    \/ LoadBloomPeriods
    \/ FitClassifier
    \/ FitRegressor
    \/ StartProjection
    \/ ProjectStep
    \/ CombineAndReturn

\* correlate_rain_ndvi is not called
InitCorrelationIdle ==
    /\ features_csv = Absent
    /\ correlation_csv = Absent
    /\ lag_tables = <<>>
    /\ corr_call = [max_lag |-> 0, outcome |-> ""]

\* build_features_monthly is not called
InitFusionIdle ==
    /\ raw_dir = <<>>
    /\ out_path = Absent
    /\ frames = <<>>
    /\ build_call = [include_s2 |-> FALSE, outcome |-> "", count |-> 0]

\* no table is loaded
InitLoaderIdle ==
    /\ month_csv = Absent
    /\ month_table = [outcome |-> "", columns |-> {}, rows |-> <<>>]
    /\ fusion_table = [outcome |-> "", columns |-> {}, rows |-> <<>>]

\* the modules are imported, nothing is initialized (gee_auth.py line 8,
\* main.py line 35)
InitGeeIdle ==
    /\ _initialized = FALSE
    /\ _INITIALIZED = FALSE
    /\ ee_initialize_calls = 0
    /\ ee_successes = 0
    /\ gee_call = [op |-> "", force |-> FALSE, outcome |-> "", raised |-> "",
                   ee_called |-> FALSE]

InitAnalysisIdle ==
    /\ ndvi_csv = Absent
    /\ bloom_global_csv = Absent
    /\ bloom_annual_csv = Absent
    /\ sensitivity_csv = Absent
    /\ thr_used = [global |-> <<>>, annual |-> <<>>]
    /\ last_call = [mode |-> "", outcome |-> ""]
    /\ repeated = FALSE

InitP ==
    InitPredictor /\ InitAnalysisIdle /\ InitCorrelationIdle /\ InitFusionIdle
    /\ InitLoaderIdle /\ InitGeeIdle

SpecPredictor == InitP /\ [][NextPredictor]_vars

\* ------------------------------------------- claims on train_bloom_predictor
\* the running history the claims speak of: the historical NDVI series (nulls
\* filled with the median) followed by the predictions made so far, in order
HistoryWithPredictions ==
    FillNaMedian(df) \o [j \in DOMAIN forecast_rows |-> forecast_rows[j].NDVI]

\* C1: at iteration k of the projection loop the lag-L feature (L in 1, 2, 12)
\* is the element L positions from the end of the history made of the historical
\* series followed by the clamped predictions of iterations 1..k-1; the history
\* grows by one element per iteration, the prediction being appended after the
\* lag features were read.
C1_LagFeaturesFromRunningHistory ==
    pc \in {"projecting", "done"} =>
        LET h == HistoryWithPredictions
            n == Len(df)
        IN  /\ Len(ndvi_history) = n + Len(forecast_rows)
            /\ ndvi_history = h
            /\ \A k \in DOMAIN forecast_rows :
                  /\ forecast_rows[k].NDVI \in 0..ONE
                  \* before iteration k the history is h[1..n+k-1]
                  /\ \A L \in {1, 2, 12} :
                        forecast_rows[k].lags[L] = h[(n + k - 1) - L + 1]

C1_Witness ==
    /\ pc = "done"
    /\ Len(forecast_rows) >= 12
    /\ forecast_rows[3].lags[1] = forecast_rows[2].NDVI
    /\ forecast_rows[3].lags[2] = forecast_rows[1].NDVI
    /\ forecast_rows[3].lags[12] = df[Len(df) - 9].NDVI
    /\ forecast_rows[3].lags[1] # forecast_rows[3].lags[2]
    /\ forecast_rows[3].lags[2] # forecast_rows[3].lags[12]

\* C2: whatever the regressor returns and whatever the residual standard
\* deviation, every forecast row has its predicted value, its lower bound and
\* its upper bound inside [0, 1].
C2_ForecastClamped ==
    /\ \A i \in DOMAIN forecast_records :
          /\ forecast_records[i].ndvi \in 0..ONE
          /\ forecast_records[i].lower \in 0..ONE
          /\ forecast_records[i].upper \in 0..ONE
    /\ \A i \in DOMAIN forecast_rows : forecast_rows[i].NDVI \in 0..ONE
    /\ pc = "done" =>
          \A i \in DOMAIN result.ndvi_forecast :
              result.ndvi_forecast[i].source = "forecast" =>
                  /\ result.ndvi_forecast[i].ndvi \in 0..ONE
                  /\ result.ndvi_forecast[i].lower \in 0..ONE
                  /\ result.ndvi_forecast[i].upper \in 0..ONE

C2_Witness ==
    /\ pc = "done"
    /\ regressor = "huge"
    /\ residual_std = 200
    /\ forecast_records[1].ndvi = ONE
    /\ forecast_records[1].lower = 0
    /\ forecast_records[1].upper = ONE

MonthIndex(d) == 12 * d[1] + d[2] - 1

IsForecastSource(r) == r.source = "forecast"

\* C3: for an accepted horizon of H = 12 x forecast_years months the returned
\* series holds exactly H rows of source "forecast", dated on consecutive first
\* days of months, the first being the month after the last historical date.
C3_ForecastHorizonDates ==
    pc = "done" =>
        LET f == SelectSeq(result.ndvi_forecast, IsForecastSource)
        IN  /\ Len(f) = 12 * forecast_years
            /\ \A i \in DOMAIN f : f[i].date[3] = 1
            /\ \A i \in DOMAIN df : MonthIndex(df[i].date) < MonthIndex(f[1].date)
            /\ \E i \in DOMAIN df : MonthIndex(df[i].date) + 1 = MonthIndex(f[1].date)
            /\ \A i \in 1..(Len(f) - 1) :
                  MonthIndex(f[i + 1].date) = MonthIndex(f[i].date) + 1

C3_Witness ==
    /\ pc = "done"
    /\ forecast_years = 1
    /\ Len(SelectSeq(result.ndvi_forecast, IsForecastSource)) = 12
    /\ \E i \in DOMAIN result.ndvi_forecast :
          /\ result.ndvi_forecast[i].source = "forecast"
          /\ result.ndvi_forecast[i].date = <<2022, 12, 1>>

BloomYears == {bloom_periods[j].year : j \in DOMAIN bloom_periods}

InWindow(date, row) ==
    /\ row.bloom_start # NaT
    /\ row.bloom_end # NaT
    /\ Ordinal(row.bloom_start) <= Ordinal(date)
    /\ Ordinal(date) <= Ordinal(row.bloom_end)

\* C4: for every bloom-window record whose year occurs in the monthly table,
\* every monthly row of that year has label_available = true, and is_bloom = 1
\* exactly when its date is inside [bloom_start, bloom_end] of that record, else
\* 0 (also when the record's start and end are null).
C4_LabelsFollowWindows ==
    pc \notin {"start", "validated", "features_loaded", "bloom_loaded"} =>
        \A j \in DOMAIN bloom_periods : \A i \in DOMAIN df :
            df[i].year = bloom_periods[j].year =>
                /\ df[i].label_available
                /\ df[i].is_bloom = IF InWindow(df[i].date, bloom_periods[j]) THEN 1 ELSE 0

C4_Witness ==
    /\ pc = "classifier_fitted"
    /\ \E j \in DOMAIN bloom_periods : \E i, k \in DOMAIN df :
          /\ bloom_periods[j].year = df[i].year
          /\ df[i].date = bloom_periods[j].bloom_end
          /\ df[i].is_bloom = 1
          /\ df[k].year = df[i].year
          /\ df[k].is_bloom = 0
    /\ \E j \in DOMAIN bloom_periods : \E i \in DOMAIN df :
          /\ bloom_periods[j].year = df[i].year
          /\ bloom_periods[j].bloom_start = NaT
          /\ df[i].label_available
          /\ df[i].is_bloom = 0

\* C5: monthly rows whose year is absent from the bloom-window table keep
\* label_available = false and is_bloom = unknown, and none of them is in the
\* classifier's training set.
C5_UnanalysedYearsExcluded ==
    /\ \A i \in DOMAIN df :
          df[i].year \notin BloomYears =>
              ~ df[i].label_available /\ df[i].is_bloom = NA
    /\ \A i \in DOMAIN train_df :
          /\ train_df[i].year \in BloomYears
          /\ train_df[i].label_available
          /\ train_df[i].is_bloom \in {0, 1}

C5_Witness ==
    /\ pc = "classifier_fitted"
    /\ train_df # <<>>
    /\ Len(train_df) < Len(df)
    /\ \E i \in DOMAIN df : df[i].year \notin BloomYears /\ df[i].is_bloom = NA

\* C10: when probability_threshold is not strictly inside (0,1) (0 and 1
\* included) or the horizon is <= 0, train_bloom_predictor raises ValueError,
\* and does so before any table is read or anything computed.
C10_InvalidArgumentsRaiseFirst ==
    (probability_threshold <= 0 \/ probability_threshold >= ONE
        \/ 12 * forecast_years <= 0) =>
        /\ pc \in {"start", "raised"}
        /\ pc = "raised" =>
              /\ error.type = "ValueError"
              /\ error.at \in {"probability_threshold", "forecast_years"}
        /\ loaded = <<>>
        /\ features = <<>> /\ bloom_periods = <<>> /\ df = <<>> /\ train_df = <<>>
        /\ regressor = "" /\ ndvi_history = <<>> /\ forecast_rows = <<>>
        /\ result = <<>>

C10_Witness ==
    /\ pc = "raised"
    /\ probability_threshold = ONE
    /\ forecast_years = 1
    /\ error = Raise("ValueError", "probability_threshold")
    /\ loaded = <<>>

\* ------------------------------------------- analysis.py: bloom detection
\* Series.quantile(q) with linear interpolation, q = num/20, of the non-null
\* values; the result is returned times 20 so that it stays an integer
\* (NaN for an empty series).
Quantile20(values, num) ==
    LET v == SortInts(NonNull(values))
        n == Len(v)
        pos == num * (n - 1)
        i == pos \div 20
        frac == pos % 20
    IN  IF n = 0 THEN NaN
        ELSE IF frac = 0 THEN 20 * v[i + 1]
        ELSE 20 * v[i + 1] + frac * (v[i + 2] - v[i + 1])

\* mutant: the comparison is strict
ReachesThresholdStrict(ndvi, thr20) == ndvi # NaN /\ thr20 # NaN /\ 20 * ndvi > thr20

\* `df["NDVI"] >= thr`, thr given times 20; a comparison with NaN is False
ReachesThreshold(ndvi, thr20) == ndvi # NaN /\ thr20 # NaN /\ 20 * ndvi >= thr20

RECURSIVE MinDate(_)
MinDate(s) ==
    IF Len(s) = 1 THEN s[1]
    ELSE LET m == MinDate(Tail(s)) IN IF DateLT(Head(s), m) THEN Head(s) ELSE m

NdviColumn(d) == [i \in DOMAIN d |-> d[i].NDVI]
DateColumn(d) == [i \in DOMAIN d |-> d[i].date]

\* mutant: the end of the window is taken as the first date too
DetectBloomFirstOnly(g, thr20) ==
    LET Hit(r) == ReachesThreshold(r.NDVI, thr20)
        hits == SelectSeq(g, Hit)
    IN  IF hits = <<>> THEN [on |-> NaT, off |-> NaT]
        ELSE [on |-> MinDate(DateColumn(hits)), off |-> MinDate(DateColumn(hits))]

\* first and last date with NDVI >= thr in the segment handed over
_detect_bloom(g, thr20) ==
    LET Hit(r) == ReachesThreshold(r.NDVI, thr20)
        hits == SelectSeq(g, Hit)
    IN  IF hits = <<>> THEN [on |-> NaT, off |-> NaT]
        ELSE [on |-> MinDate(DateColumn(hits)), off |-> MaxDate(DateColumn(hits))]

\* df.sort_values("date").dropna(subset=["NDVI"])
CleanNdvi(rows) ==
    LET HasNdvi(r) == r.NDVI # NaN
    IN  SelectSeq(SortByDate(rows), HasNdvi)

\* the groups of df.groupby(df["date"].dt.year): the years, ascending
GroupYears(d) == SortInts(
    LET ys == {Year(d[i].date) : i \in DOMAIN d}
        RECURSIVE AsSeq(_)
        AsSeq(S) == IF S = {} THEN <<>>
                    ELSE LET y == CHOOSE y \in S : TRUE IN <<y>> \o AsSeq(S \ {y})
    IN  AsSeq(ys))

Group(d, y) == LET InYear(r) == Year(r.date) = y IN SelectSeq(d, InYear)

\* mutant: the global mode recomputes the percentile inside each year
ThresholdAlwaysPerYear(mode, d, g) == Quantile20(NdviColumn(g), 15)

\* mutant: the annual mode uses the percentile of the whole series
ThresholdAlwaysGlobal(mode, d, g) == Quantile20(NdviColumn(d), 15)

\* the threshold handed to _detect_bloom for the year group g of table d:
\* line 38 (global, computed once before the loop) and line 63 (annual)
ThresholdFor(mode, d, g) ==
    IF mode = "global" THEN Quantile20(NdviColumn(d), 15)
    ELSE Quantile20(NdviColumn(g), 15)

\* lines 40-45 and 62-68: the rows appended for the year groups ys
RECURSIVE BloomRows(_, _, _)
BloomRows(mode, d, ys) ==
    IF ys = <<>> THEN <<>>
    ELSE LET g == Group(d, Head(ys))
             w == _detect_bloom(g, ThresholdFor(mode, d, g))
         IN  (IF w.on # NaT
              THEN <<[year |-> Head(ys), bloom_start |-> w.on, bloom_end |-> w.off,
                      duration_days |-> DaysBetween(w.on, w.off)]>>
              ELSE <<>>)
             \o BloomRows(mode, d, Tail(ys))

\* lines 50-57: the threshold-sensitivity rows
sensitivity_quantiles == <<13, 15, 16>>

\* mutant: each year is tested against the quantile of its own observations
SensitivityRowsPerYear(d) ==
    [k \in DOMAIN sensitivity_quantiles |->
        LET ys == GroupYears(d)
            active == {j \in DOMAIN ys :
                          _detect_bloom(Group(d, ys[j]),
                                        Quantile20(NdviColumn(Group(d, ys[j])),
                                                   sensitivity_quantiles[k])).on # NaT}
        IN  [quantile |-> sensitivity_quantiles[k],
             years_with_bloom |-> Cardinality(active),
             years_total |-> Len(ys)]]

SensitivityRows(d) ==
    [k \in DOMAIN sensitivity_quantiles |->
        LET t == Quantile20(NdviColumn(d), sensitivity_quantiles[k])
            ys == GroupYears(d)
            active == {j \in DOMAIN ys : _detect_bloom(Group(d, ys[j]), t).on # NaT}
        IN  [quantile |-> sensitivity_quantiles[k],
             years_with_bloom |-> Cardinality(active),
             years_total |-> Len(ys)]]

ThresholdsUsed(mode, d) ==
    LET ys == GroupYears(d)
    IN  [y \in Range(ys) |-> ThresholdFor(mode, d, Group(d, y))]

\* ------------------------------------------- analysis.py: inputs
\* data/raw/modis_ndvi_monthly.csv is written by the acquisition layer: one row
\* per month, first-of-month dates in increasing order, NDVI possibly null.
ObsDates == <<<<2020, 1, 1>>, <<2020, 3, 1>>, <<2020, 12, 1>>, <<2021, 2, 1>>,
              <<2021, 3, 1>>>>
ObsValues == {NaN, 2000, 5000, 8000}

\* the tables with at most MaxObs rows: which dates are present, and their NDVI
NdviTables ==
    UNION {
        {[i \in 1..Len(ds) |-> [date |-> ds[i], NDVI |-> vs[i]]] :
            vs \in [1..Len(ds) -> ObsValues]} :
        ds \in {s \in UNION {[1..n -> Range(ObsDates)] : n \in 0..MaxObs} :
                    \A i \in 1..(Len(s) - 1) : DateLT(s[i], s[i + 1])}}

NdviFiles == {Absent} \cup {File(t) : t \in NdviTables}

Modes == {"global", "annual", "weekly"}

\* The processed tables do not exist yet, or, where the raw file is missing,
\* they may be the ones an earlier run wrote from a raw table without any
\* valid observation before that file was removed.
InitAnalysis ==
    /\ ndvi_csv \in NdviFiles
    /\ bloom_global_csv \in (IF ndvi_csv.exists THEN {Absent}
                             ELSE {Absent, File(BloomRows("global", <<>>, <<>>))})
    /\ bloom_annual_csv \in (IF ndvi_csv.exists THEN {Absent}
                             ELSE {Absent, File(BloomRows("annual", <<>>, <<>>))})
    /\ sensitivity_csv = IF bloom_global_csv.exists THEN File(SensitivityRows(<<>>))
                         ELSE Absent
    /\ thr_used = [global |-> <<>>, annual |-> <<>>]
    /\ last_call = [mode |-> "", outcome |-> ""]
    /\ repeated = FALSE

InitPredictorIdle ==
    /\ pc = "idle"
    /\ error = NoError
    /\ probability_threshold = 5000
    /\ forecast_years = 1
    /\ loaded = <<>>
    /\ features = <<>>
    /\ bloom_periods = <<>>
    /\ df = <<>>
    /\ train_df = <<>>
    /\ model_name = ""
    /\ regressor = ""
    /\ residual_std = 0
    /\ future_dates = <<>>
    /\ ndvi_history = <<>>
    /\ forecast_rows = <<>>
    /\ forecast_records = <<>>
    /\ result = <<>>

\* mutant: the rows are appended to the table already on disk
ToCsvAppend(old, rows) == File(old.rows \o rows)

\* DataFrame(rows).to_csv(out_csv, index=False) (lines 47, 58, 70): the file
\* is replaced
to_csv(old, rows) == File(rows)

\* mutant: the existence check is skipped, a missing file reads as no rows
RawMissingIgnored(f) == FALSE

\* `not os.path.exists(ndvi_csv)` (line 29)
RawMissing(f) == ~ f.exists

\* analyze_bloom_season(mode), lines 22-74
analyze_bloom_season(mode) ==
    /\ IF RawMissing(ndvi_csv)
       THEN /\ last_call' = [mode |-> mode, outcome |-> "FileNotFoundError"]
            /\ UNCHANGED <<bloom_global_csv, bloom_annual_csv, sensitivity_csv, thr_used>>
       ELSE LET d == CleanNdvi(ndvi_csv.rows)
            IN  /\ last_call' = [mode |-> mode, outcome |-> "returned"]
                /\ IF mode = "global"
                   THEN /\ bloom_global_csv' = to_csv(bloom_global_csv,
                                                     BloomRows(mode, d, GroupYears(d)))
                        /\ sensitivity_csv' = to_csv(sensitivity_csv, SensitivityRows(d))
                        /\ thr_used' = [thr_used EXCEPT !.global = ThresholdsUsed(mode, d)]
                        /\ UNCHANGED bloom_annual_csv
                   ELSE /\ bloom_annual_csv' = to_csv(bloom_annual_csv,
                                                     BloomRows(mode, d, GroupYears(d)))
                        /\ thr_used' = [thr_used EXCEPT !.annual = ThresholdsUsed(mode, d)]
                        /\ UNCHANGED <<bloom_global_csv, sensitivity_csv>>
    /\ repeated' = (last_call.mode = mode)
    /\ UNCHANGED ndvi_csv
    /\ UNCHANGED <<pvars, cvars, fvars, lvars, gvars>>

AnalyzeBloomSeason == \E mode \in Modes : analyze_bloom_season(mode)

NextAnalysis == AnalyzeBloomSeason

InitA ==
    InitAnalysis /\ InitPredictorIdle /\ InitCorrelationIdle /\ InitFusionIdle
    /\ InitLoaderIdle /\ InitGeeIdle

SpecAnalysis == InitA /\ [][NextAnalysis]_vars

\* ------------------------------------------- claims on analyze_bloom_season
\* the valid observations of year y in the raw table
ObservationsOf(y) ==
    {r \in Range(ndvi_csv.rows) : Year(r.date) = y /\ r.NDVI # NaN}

ObservedYears == {Year(r.date) : r \in {r \in Range(ndvi_csv.rows) : r.NDVI # NaN}}

WindowIsExtent(rec, thr20) ==
    LET hits == {r \in ObservationsOf(rec.year) : 20 * r.NDVI >= thr20}
    IN  /\ hits # {}
        /\ \E h \in hits : h.date = rec.bloom_start
        /\ \E h \in hits : h.date = rec.bloom_end
        /\ \A h \in hits : /\ Ordinal(rec.bloom_start) <= Ordinal(h.date)
                           /\ Ordinal(h.date) <= Ordinal(rec.bloom_end)
        /\ Ordinal(rec.bloom_start) <= Ordinal(rec.bloom_end)
        /\ rec.duration_days = Ordinal(rec.bloom_end) - Ordinal(rec.bloom_start)
        /\ rec.duration_days >= 0

\* C6: in every record written by analyze_bloom_season (either mode),
\* bloom_start is the earliest and bloom_end the latest date of the record's
\* year whose NDVI is >= the threshold used for that year, so that
\* bloom_start <= bloom_end and duration_days = (bloom_end - bloom_start) >= 0.
C6_WindowIsFirstAndLastExceedance ==
    /\ bloom_global_csv.exists =>
          \A j \in DOMAIN bloom_global_csv.rows :
              LET rec == bloom_global_csv.rows[j]
              IN  /\ rec.year \in DOMAIN thr_used.global
                  /\ WindowIsExtent(rec, thr_used.global[rec.year])
    /\ bloom_annual_csv.exists =>
          \A j \in DOMAIN bloom_annual_csv.rows :
              LET rec == bloom_annual_csv.rows[j]
              IN  /\ rec.year \in DOMAIN thr_used.annual
                  /\ WindowIsExtent(rec, thr_used.annual[rec.year])

C6_Witness ==
    /\ bloom_global_csv.exists
    /\ bloom_annual_csv.exists
    /\ \E j \in DOMAIN bloom_global_csv.rows :
          /\ bloom_global_csv.rows[j].bloom_start = <<2020, 1, 1>>
          /\ bloom_global_csv.rows[j].bloom_end = <<2020, 12, 1>>
          /\ bloom_global_csv.rows[j].duration_days = 335
    /\ \E j \in DOMAIN bloom_annual_csv.rows :
          bloom_annual_csv.rows[j].duration_days = 0

\* C7 (as claimed): in global mode every calendar year of the series has one
\* record; a year in which no observation reaches the threshold has the record
\* (null, null, 0).
C7_EveryYearHasRecord ==
    (bloom_global_csv.exists /\ last_call = [mode |-> "global", outcome |-> "returned"]) =>
        \A y \in ObservedYears :
            /\ \E j \in DOMAIN bloom_global_csv.rows : bloom_global_csv.rows[j].year = y
            /\ \A j \in DOMAIN bloom_global_csv.rows :
                  (/\ bloom_global_csv.rows[j].year = y
                   /\ \A r \in ObservationsOf(y) :
                         20 * r.NDVI < Quantile20(NdviColumn(ndvi_csv.rows), 15))
                  => /\ bloom_global_csv.rows[j].bloom_start = NaT
                     /\ bloom_global_csv.rows[j].bloom_end = NaT
                     /\ bloom_global_csv.rows[j].duration_days = 0

\* C8: in global mode the threshold applied to every year's subset is one and
\* the same value, the 75th percentile of the non-null NDVI of the whole series.
C8_GlobalThresholdIsSeriesP75 ==
    bloom_global_csv.exists =>
        LET p75 == Quantile20(NdviColumn(ndvi_csv.rows), 15)
        IN  /\ DOMAIN thr_used.global = ObservedYears
            /\ \A y \in ObservedYears : thr_used.global[y] = p75
            /\ \A y \in ObservedYears :
                  (\E j \in DOMAIN bloom_global_csv.rows : bloom_global_csv.rows[j].year = y)
                  <=> (\E r \in ObservationsOf(y) : 20 * r.NDVI >= p75)

C8_Witness ==
    /\ bloom_global_csv.exists
    /\ Cardinality(ObservedYears) = 2
    /\ \E y \in ObservedYears :
          /\ Quantile20(NdviColumn(Group(CleanNdvi(ndvi_csv.rows), y)), 15)
                # thr_used.global[y]
          /\ ~ \E j \in DOMAIN bloom_global_csv.rows : bloom_global_csv.rows[j].year = y

RowsOfYear(rows, y) == LET InYear(r) == Year(r.date) = y IN SelectSeq(rows, InYear)
RecordsOfYear(recs, y) == LET ForYear(r) == r.year = y IN SelectSeq(recs, ForYear)

\* the annual table computed from the given raw rows
AnnualTableOf(rows) ==
    BloomRows("annual", CleanNdvi(rows), GroupYears(CleanNdvi(rows)))

\* C9: in annual mode the threshold of year Y is the 75th percentile of year
\* Y's own non-null observations, so the record of year Y is the one obtained
\* from year Y's observations alone, whatever the other years hold.
C9_AnnualRecordDependsOnOwnYear ==
    bloom_annual_csv.exists =>
        /\ DOMAIN thr_used.annual = ObservedYears
        /\ \A y \in ObservedYears :
              /\ thr_used.annual[y]
                    = Quantile20(NdviColumn(RowsOfYear(ndvi_csv.rows, y)), 15)
              /\ RecordsOfYear(bloom_annual_csv.rows, y)
                    = AnnualTableOf(RowsOfYear(ndvi_csv.rows, y))

C9_Witness ==
    /\ bloom_annual_csv.exists
    /\ Cardinality(ObservedYears) = 2
    /\ thr_used.annual[2020] # thr_used.annual[2021]
    /\ thr_used.annual[2021] # Quantile20(NdviColumn(ndvi_csv.rows), 15)
    /\ Len(bloom_annual_csv.rows) = 2

\* ------------------------------------------- failure modes of the predictor
\* C11: when every training label has the same value and the regressor could be
\* fitted, the run uses the constant fallback classifier and ends by returning
\* a full result: a combined table covering every historical and projected row
\* and a ROC-AUC reported as undefined.  It does not end by raising.
C11_SingleClassRunReturns ==
    (/\ train_df # <<>>
     /\ Cardinality(UniqueLabels(train_df)) = 1
     /\ pc \in {"done", "raised"}
     /\ error.at \notin {"reg_train.empty", "reg_pipeline.fit"})
    => /\ pc = "done"
       /\ result.model = "DummyClassifier"
       /\ result.roc_auc = "undefined"
       /\ Len(result.table) = Len(df) + Len(future_dates)

\* the table at `path` was found and read
WasRead(path) == \E i \in DOMAIN loaded : loaded[i] = [path |-> path, exists |-> TRUE]

\* the run ended with the condition raised for unusable data
RaisedValueErrorAt(at) == pc = "raised" /\ error = Raise("ValueError", at)

\* C12: a required table file that is absent ends the run with
\* FileNotFoundError; a table that is present but unusable (feature table
\* without rows, bloom table without rows, no labelled training row, no
\* regressor training row once rows with incomplete lags are dropped) ends it
\* with ValueError, a different condition; no result is returned in any of
\* these cases.
C12_MissingAndUnusableTablesRaise ==
    /\ \A i \in DOMAIN loaded :
          ~ loaded[i].exists =>
              pc = "raised" /\ error = Raise("FileNotFoundError", loaded[i].path)
    /\ (WasRead("features_csv") /\ features = <<>>) => RaisedValueErrorAt("features.empty")
    /\ (WasRead("bloom_periods_csv") /\ bloom_periods = <<>>) =>
          RaisedValueErrorAt("bloom_periods.empty")
    /\ (df # <<>> /\ train_df = <<>>) => RaisedValueErrorAt("train_df.empty")
    /\ (train_df # <<>> /\ RegTrainIndex(df) = {} /\ pc # "classifier_fitted") =>
          RaisedValueErrorAt("reg_train.empty")
    /\ pc = "raised" => result = <<>>

C12_Witness ==
    /\ pc = "raised"
    /\ WasRead("features_csv")
    /\ features # <<>>
    /\ Len(loaded) = 2
    /\ ~ loaded[2].exists
    /\ error.type = "FileNotFoundError"

\* ------------------------------------------- analysis.py: correlate_rain_ndvi
MaxMonths == 4
MaxLag == 2

RECURSIVE SumSeq(_)
SumSeq(s) == IF s = <<>> THEN 0 ELSE Head(s) + SumSeq(Tail(s))

\* `df.date.dt.year >= 2015` and `<= 2025` (line 105)
InStudyYears(r) == r.date # NaT /\ Year(r.date) >= 2015 /\ Year(r.date) <= 2025

\* dropna(subset=["NDVI", "precip_mm"]) (line 108)
BothPresent(r) == r.NDVI # NaN /\ r.precip_mm # NaN

\* mutant: the shift is applied to the table before its incomplete rows are
\* dropped, so that row k - lag is the row of the month `lag` rows earlier
LagTableShiftFirst(d, lag) ==
    LET shifted == [j \in 1..(IF Len(d) > lag THEN Len(d) - lag ELSE 0) |->
                       [date |-> d[j + lag].date, NDVI |-> d[j + lag].NDVI,
                        precip_lag |-> d[j].precip_mm, precip_date |-> d[j].date]]
        Complete(r) == r.NDVI # NaN /\ r.precip_lag # NaN
    IN  SelectSeq(shifted, Complete)

\* lines 108-117: base = rows with both values; tmp.precip_lag = base.precip_mm
\* shifted down by `lag` rows; rows whose shifted value is missing are dropped.
\* precip_date records the row the shifted value was taken from.
LagTable(d, lag) ==
    LET base == SelectSeq(d, BothPresent)
    IN  [j \in 1..(IF Len(base) > lag THEN Len(base) - lag ELSE 0) |->
            [date |-> base[j + lag].date, NDVI |-> base[j + lag].NDVI,
             precip_lag |-> base[j].precip_mm, precip_date |-> base[j].date]]

\* np.isclose(std(ddof=1), 0.0) on n (n - 1) var = n sum(x^2) - sum(x)^2.  The
\* tolerance 1e-8 is far below one unit of the values, so only 0 is close to 0.
StdIsCloseToZero(nvar) == nvar = 0

\* r = np.nan (line 121): an r without value, written as the three terms 0
PearsonNaN == [cov |-> 0, var_x |-> 0, var_y |-> 0]

\* mutant: two pairs are taken as enough
PearsonRMinTwo(tmp) ==
    LET n == Len(tmp)
        x == [i \in DOMAIN tmp |-> tmp[i].precip_lag]
        y == [i \in DOMAIN tmp |-> tmp[i].NDVI]
        nvar_x == n * SumSeq([i \in DOMAIN x |-> x[i] * x[i]]) - SumSeq(x) * SumSeq(x)
        nvar_y == n * SumSeq([i \in DOMAIN y |-> y[i] * y[i]]) - SumSeq(y) * SumSeq(y)
    IN  IF n < 2 \/ StdIsCloseToZero(nvar_x) \/ StdIsCloseToZero(nvar_y)
        THEN PearsonNaN
        ELSE [cov |-> n * SumSeq([i \in DOMAIN x |-> x[i] * y[i]]) - SumSeq(x) * SumSeq(y),
              var_x |-> nvar_x, var_y |-> nvar_y]

\* lines 120-123: r = NaN for fewer than 3 pairs or a series without variance,
\* else Pearson's r = cov / sqrt(var_x var_y), kept as its three terms (each
\* times n^2)
PearsonR(tmp) ==
    LET n == Len(tmp)
        x == [i \in DOMAIN tmp |-> tmp[i].precip_lag]
        y == [i \in DOMAIN tmp |-> tmp[i].NDVI]
        nvar_x == n * SumSeq([i \in DOMAIN x |-> x[i] * x[i]]) - SumSeq(x) * SumSeq(x)
        nvar_y == n * SumSeq([i \in DOMAIN y |-> y[i] * y[i]]) - SumSeq(y) * SumSeq(y)
    IN  IF n < 3 \/ StdIsCloseToZero(nvar_x) \/ StdIsCloseToZero(nvar_y)
        THEN PearsonNaN
        ELSE [cov |-> n * SumSeq([i \in DOMAIN x |-> x[i] * y[i]]) - SumSeq(x) * SumSeq(y),
              var_x |-> nvar_x, var_y |-> nvar_y]

\* lines 110-125: one output row per lag
CorrelationRows(tables) ==
    [k \in DOMAIN tables |->
        [lag_months |-> k - 1, r_pearson |-> PearsonR(tables[k]),
         n_pairs |-> Len(tables[k])]]

\* inputs: the monthly table of 2015-01.., any month may be missing, NDVI in
\* 1e-4 units and precipitation in mm, either cell may be empty
CorrMonths == [i \in 1..MaxMonths |-> AddMonths(<<2015, 1, 1>>, i - 1)]
CorrCells == {<<NaN, 10>>, <<2000, NaN>>, <<2000, 10>>, <<5000, 10>>, <<2000, 30>>}

RECURSIVE CorrRows(_, _)
CorrRows(choice, i) ==
    IF i > MaxMonths THEN <<>>
    ELSE (IF choice[i] = <<>> THEN <<>>
          ELSE <<[date |-> CorrMonths[i], NDVI |-> choice[i][1],
                  precip_mm |-> choice[i][2]]>>)
         \o CorrRows(choice, i + 1)

\* a row before the study years
EarlyRow == [date |-> <<2014, 12, 1>>, NDVI |-> 5000, precip_mm |-> 30]

Table(columns, rows) == [exists |-> TRUE, columns |-> columns, rows |-> rows]

CorrFeatureFiles ==
    {Absent,
     Table({"date", "NDVI"}, <<>>),
     Table({"date", "precip_mm"}, <<>>),
     Table({"NDVI", "precip_mm"}, <<>>)}
    \cup {Table({"date", "NDVI", "precip_mm"},
                (IF early THEN <<EarlyRow>> ELSE <<>>) \o CorrRows(choice, 1)) :
             early \in BOOLEAN, choice \in [1..MaxMonths -> CorrCells \cup {<<>>}]}

InitCorrelation ==
    /\ features_csv \in CorrFeatureFiles
    /\ correlation_csv = Absent
    /\ lag_tables = <<>>
    /\ corr_call = [max_lag |-> 0, outcome |-> ""]

\* lines 76-137
correlate_rain_ndvi(max_lag) ==
    /\ IF ~ features_csv.exists
       THEN /\ corr_call' = [max_lag |-> max_lag, outcome |-> "None"]
            /\ UNCHANGED <<correlation_csv, lag_tables>>
       ELSE IF "date" \notin features_csv.columns
       THEN /\ corr_call' = [max_lag |-> max_lag, outcome |-> "KeyError"]
            /\ UNCHANGED <<correlation_csv, lag_tables>>
       ELSE IF "NDVI" \notin features_csv.columns \/ "precip_mm" \notin features_csv.columns
       THEN /\ corr_call' = [max_lag |-> max_lag, outcome |-> "None"]
            /\ UNCHANGED <<correlation_csv, lag_tables>>
       ELSE LET d == SelectSeq(SortByDate(features_csv.rows), InStudyYears)
                tables == [k \in 1..(max_lag + 1) |-> LagTable(d, k - 1)]
            IN  /\ lag_tables' = tables
                /\ correlation_csv' = File(CorrelationRows(tables))
                /\ corr_call' = [max_lag |-> max_lag, outcome |-> "returned"]
    /\ UNCHANGED features_csv
    /\ UNCHANGED <<pvars, avars, fvars, lvars, gvars>>

CorrelateRainNdvi == \E max_lag \in 0..MaxLag : correlate_rain_ndvi(max_lag)

NextCorrelation == CorrelateRainNdvi

InitC ==
    InitCorrelation /\ InitPredictorIdle /\ InitAnalysisIdle /\ InitFusionIdle
    /\ InitLoaderIdle /\ InitGeeIdle

SpecCorrelation == InitC /\ [][NextCorrelation]_vars

\* ------------------------------------------- claims on correlate_rain_ndvi
\* C13: at lag L every pair counted in n_pairs couples the NDVI of a calendar
\* month m with the precipitation of calendar month m - L exactly, whatever
\* months or cells the input table is missing.
C13_PairsAreMonthAligned ==
    \A k \in DOMAIN lag_tables : \A i \in DOMAIN lag_tables[k] :
        MonthIndex(lag_tables[k][i].date) - MonthIndex(lag_tables[k][i].precip_date)
            = k - 1

\* the values of one column of a lag table
ColumnValues(tmp, col) == {tmp[i][col] : i \in DOMAIN tmp}

\* the correlation table of the last run has one row per lag table
RowsMatchLagTables ==
    /\ correlation_csv.exists
    /\ Len(correlation_csv.rows) = Len(lag_tables)
    /\ Len(lag_tables) = corr_call.max_lag + 1

\* C14: r_pearson is null exactly when fewer than 3 valid pairs exist or one of
\* the two paired series is constant, n_pairs is the number of pairs used, and
\* a run on a table that has the three columns returns (degenerate series do
\* not make it raise).
C14_NullExactlyWhenDegenerate ==
    /\ (corr_call.outcome # "" /\ features_csv.exists
        /\ {"date", "NDVI", "precip_mm"} \subseteq features_csv.columns)
          => corr_call.outcome = "returned" /\ RowsMatchLagTables
    /\ \A k \in DOMAIN lag_tables :
          LET row == correlation_csv.rows[k]
              tmp == lag_tables[k]
          IN  /\ row.lag_months = k - 1
              /\ row.n_pairs = Len(tmp)
              /\ row.r_pearson = PearsonNaN <=>
                    \/ Len(tmp) < 3
                    \/ Cardinality(ColumnValues(tmp, "NDVI")) = 1
                    \/ Cardinality(ColumnValues(tmp, "precip_lag")) = 1

\* two lags of one run: exactly two pairs with r null, three pairs of varying
\* values with r defined
C14_Witness ==
    /\ corr_call.outcome = "returned"
    /\ \E k \in DOMAIN lag_tables :
          /\ Len(lag_tables[k]) = 2
          /\ Cardinality(ColumnValues(lag_tables[k], "NDVI")) = 2
          /\ Cardinality(ColumnValues(lag_tables[k], "precip_lag")) = 2
          /\ correlation_csv.rows[k].r_pearson = PearsonNaN
    /\ \E k \in DOMAIN lag_tables :
          /\ Len(lag_tables[k]) >= 3
          /\ correlation_csv.rows[k].r_pearson # PearsonNaN

\* C15: within one run n_pairs does not increase as the lag increases.
C15_PairsNonIncreasingInLag ==
    correlation_csv.exists =>
        \A a \in DOMAIN correlation_csv.rows : \A b \in DOMAIN correlation_csv.rows :
            a < b => correlation_csv.rows[b].n_pairs <= correlation_csv.rows[a].n_pairs

\* a run over a table with an empty cell and a missing month in which the
\* count falls from lag 0 to lag 2
C15_Witness ==
    /\ corr_call = [max_lag |-> 2, outcome |-> "returned"]
    /\ Len(features_csv.rows) < MaxMonths
    /\ \E i \in DOMAIN features_csv.rows : ~ BothPresent(features_csv.rows[i])
    /\ correlation_csv.rows[1].n_pairs = 2
    /\ correlation_csv.rows[3].n_pairs = 0

\* ------------------------------------------- data_collector.py: build_features_monthly
MaxSourceMonths == 2

\* START and END (lines 10-11), the defaults of `start` and `end`
START == <<2015, 1, 1>>
END == <<2025, 12, 31>>

\* the five sources in the order of lines 258-320: file, accepted names of the
\* value column, canonical name
Sources ==
    <<[file |-> "modis_ndvi", candidates |-> {"NDVI", "ndvi", "modis_ndvi"}, column |-> "NDVI"],
      [file |-> "modis_lst", candidates |-> {"LST_C", "LST_Day_1km", "LST"}, column |-> "LST_C"],
      [file |-> "gpm", candidates |-> {"precip_mm", "precipitation", "rain_mm", "precip"},
       column |-> "precip_mm"],
      [file |-> "smap", candidates |-> {"soil_moisture", "ssm", "SMAP_SSM"},
       column |-> "soil_moisture"],
      [file |-> "s2", candidates |-> {"s2_ndvi", "NDVI", "S2_NDVI"}, column |-> "s2_ndvi"]>>

\* lines 38-40: to_datetime(errors="coerce") and astype("datetime64[M]")
_coerce_month_date(rows) ==
    [i \in DOMAIN rows |->
        [rows[i] EXCEPT !.date = IF @ = NaT THEN NaT ELSE <<@[1], @[2], 1>>]]

\* mutant: a missing file is loaded as a table without rows
LoadMonthCsvMissingAsEmpty(f, src) ==
    IF ~ f.exists THEN [error |-> "", columns |-> {"date", src.column}, rows |-> <<>>]
    ELSE LET columns == IF f.columns \cap src.candidates # {}
                        THEN (f.columns \ src.candidates) \cup {src.column}
                        ELSE f.columns
         IN  IF "date" \notin columns
             THEN [error |-> "ValueError", columns |-> columns, rows |-> <<>>]
             ELSE [error |-> "", columns |-> columns, rows |-> _coerce_month_date(f.rows)]

\* lines 214-237: FileNotFoundError for a missing file, the value column
\* renamed to its canonical name, dates coerced, ValueError without 'date'
_load_month_csv(f, src) ==
    IF ~ f.exists THEN [error |-> "FileNotFoundError", columns |-> {}, rows |-> <<>>]
    ELSE LET columns == IF f.columns \cap src.candidates # {}
                        THEN (f.columns \ src.candidates) \cup {src.column}
                        ELSE f.columns
         IN  IF "date" \notin columns
             THEN [error |-> "ValueError", columns |-> columns, rows |-> <<>>]
             ELSE [error |-> "", columns |-> columns, rows |-> _coerce_month_date(f.rows)]

\* `(df.date >= start) & (df.date <= end)`
InRange(r) == DateLE(START, r.date) /\ DateLE(r.date, END)

\* one try block of lines 258-320: the frame appended to `frames`, or nothing
\* when the load, the filter or the column selection raised
LoadFrame(f, src) ==
    LET loaded_csv == _load_month_csv(f, src)
        kept == SelectSeq(loaded_csv.rows, InRange)
    IN  IF loaded_csv.error # "" \/ src.column \notin loaded_csv.columns THEN <<>>
        ELSE <<[columns |-> {"date", src.column},
                rows |-> [i \in DOMAIN kept |->
                             ("date" :> kept[i].date) @@ (src.column :> kept[i].value)]]>>

\* left.merge(right, on="date", how="outer"): every pair of rows with the same
\* date, and the unmatched rows of either side with the other columns empty
EmptyCells(columns) == [c \in columns |-> NaN]

RECURSIVE MatchLeft(_, _, _)
MatchLeft(left_rows, right, columns) ==
    IF left_rows = <<>> THEN <<>>
    ELSE LET l == Head(left_rows)
             SameDate(r) == r.date = l.date
             m == SelectSeq(right.rows, SameDate)
         IN  (IF m = <<>>
              THEN <<l @@ EmptyCells(columns)>>
              ELSE [i \in DOMAIN m |-> l @@ m[i]])
             \o MatchLeft(Tail(left_rows), right, columns)

OuterMerge(left, right) ==
    LET columns == left.columns \cup right.columns
        Unmatched(r) == \A i \in DOMAIN left.rows : left.rows[i].date # r.date
        rest == SelectSeq(right.rows, Unmatched)
    IN  [columns |-> columns,
         rows |-> MatchLeft(left.rows, right, columns)
                  \o [i \in DOMAIN rest |-> rest[i] @@ EmptyCells(columns)]]

\* mutant: rows of the right table without a match are dropped
SafeMergeLeftJoin(left, right) ==
    IF Len(left.rows) = 0 THEN right
    ELSE IF Len(right.rows) = 0 THEN left
    ELSE [columns |-> left.columns \cup right.columns,
          rows |-> MatchLeft(left.rows, right, left.columns \cup right.columns)]

\* lines 90-98 (neither argument is None here)
_safe_merge(left, right) ==
    IF Len(left.rows) = 0 THEN right
    ELSE IF Len(right.rows) = 0 THEN left
    ELSE OuterMerge([left EXCEPT !.rows = _coerce_month_date(@)],
                    [right EXCEPT !.rows = _coerce_month_date(@)])

\* lines 331-333
RECURSIVE MergeAll(_, _)
MergeAll(df_all, rest) ==
    IF rest = <<>> THEN df_all ELSE MergeAll(_safe_merge(df_all, Head(rest)), Tail(rest))

\* mean(numeric_only=True) of one column of one group: empty cells are skipped
MeanSkipNa(values) ==
    IF NonNull(values) = <<>> THEN NaN
    ELSE SumSeq(NonNull(values)) \div Len(NonNull(values))

\* mutant: rows of the same date are not aggregated
GroupByDateKeepRows(rows, columns) == rows

\* line 337: groupby("date", as_index=False).mean(numeric_only=True) on rows
\* sorted by date
RECURSIVE GroupByDateMean(_, _)
GroupByDateMean(rows, columns) ==
    IF rows = <<>> THEN <<>>
    ELSE LET d == Head(rows).date
             Same(r) == r.date = d
             Other(r) == r.date # d
             g == SelectSeq(rows, Same)
         IN  <<("date" :> d)
               @@ [c \in columns \ {"date"} |-> MeanSkipNa([i \in DOMAIN g |-> g[i][c]])]>>
             \o GroupByDateMean(SelectSeq(rows, Other), columns)

\* inputs: the monthly csv files of data/raw.  Rows are (date, value), the
\* value under the column name the file carries.
SourceMonths == [i \in 1..MaxSourceMonths |-> AddMonths(START, i - 1)]
MonthChoices == {"none", "value", "null", "twice"}

RECURSIVE SourceRows(_, _)
SourceRows(choice, i) ==
    IF i > MaxSourceMonths THEN <<>>
    ELSE LET d == SourceMonths[i]
             v == 2000 + 1000 * i
         IN  (CASE choice[i] = "none" -> <<>>
                [] choice[i] = "value" -> <<[date |-> d, value |-> v]>>
                [] choice[i] = "null" -> <<[date |-> d, value |-> NaN]>>
                [] choice[i] = "twice" -> <<[date |-> d, value |-> v],
                                            [date |-> <<d[1], d[2], 15>>, value |-> v + 200]>>)
             \o SourceRows(choice, i + 1)

NdviSourceFiles ==
    {Absent,
     Table({"NDVI"}, <<>>),
     Table({"date", "EVI"}, <<[date |-> START, value |-> 3000]>>)}
    \cup {Table({"date", "NDVI"}, SourceRows(choice, 1)) :
             choice \in [1..MaxSourceMonths -> MonthChoices]}

\* out of date order, with a date that does not parse
LstSourceFiles ==
    {Absent,
     Table({"date", "LST_Day_1km"},
           <<[date |-> <<2015, 3, 1>>, value |-> 30], [date |-> NaT, value |-> 20],
             [date |-> <<2015, 1, 1>>, value |-> 10]>>)}

\* overlapping the NDVI months, disjoint from them, repeating a month
GpmSourceFiles ==
    {Absent,
     Table({"date", "precip_mm"},
           <<[date |-> <<2015, 1, 1>>, value |-> 10], [date |-> <<2015, 2, 1>>, value |-> NaN]>>),
     Table({"date", "precip_mm"},
           <<[date |-> <<2016, 6, 1>>, value |-> 10], [date |-> <<2016, 7, 1>>, value |-> 30]>>),
     Table({"date", "precip_mm"},
           <<[date |-> <<2016, 6, 1>>, value |-> 10], [date |-> <<2016, 6, 1>>, value |-> 30]>>)}

GpmAltSourceFiles ==
    {Absent, Table({"date", "precipitation"}, <<[date |-> <<2015, 1, 1>>, value |-> 50]>>)}

\* every row before `start`
SmapSourceFiles ==
    {Absent, Table({"date", "ssm"}, <<[date |-> <<2014, 12, 1>>, value |-> 1500]>>)}

S2SourceFiles ==
    {Absent, Table({"date", "NDVI"}, <<[date |-> <<2015, 2, 15>>, value |-> 4000]>>)}

InitFusion ==
    /\ raw_dir \in [modis_ndvi : NdviSourceFiles, modis_lst : LstSourceFiles,
                    gpm : GpmSourceFiles, gpm_alt : GpmAltSourceFiles,
                    smap : SmapSourceFiles, s2 : S2SourceFiles]
    /\ out_path = Absent
    /\ frames = <<>>
    /\ build_call = [include_s2 |-> FALSE, outcome |-> "", count |-> 0]

\* lines 284-288: the alternative name of the GPM file
GpmPath == IF ~ raw_dir.gpm.exists /\ raw_dir.gpm_alt.exists THEN "gpm_alt" ELSE "gpm"

\* lines 258-320
LoadFrames(include_s2) ==
    LoadFrame(raw_dir.modis_ndvi, Sources[1])
    \o LoadFrame(raw_dir.modis_lst, Sources[2])
    \o LoadFrame(raw_dir[GpmPath], Sources[3])
    \o LoadFrame(raw_dir.smap, Sources[4])
    \o (IF include_s2 THEN LoadFrame(raw_dir.s2, Sources[5]) ELSE <<>>)

\* lines 239-341
build_features_monthly(include_s2) ==
    /\ LET loaded_frames == LoadFrames(include_s2)
           merged == MergeAll(Head(loaded_frames), Tail(loaded_frames))
           df_all == GroupByDateMean(SortByDate(merged.rows), merged.columns)
       IN  /\ frames' = loaded_frames
           /\ IF loaded_frames = <<>>
              THEN /\ out_path' = Table({"date"}, <<>>)
                   /\ build_call' = [include_s2 |-> include_s2, outcome |-> "returned",
                                     count |-> 0]
              ELSE /\ out_path' = Table(merged.columns, df_all)
                   /\ build_call' = [include_s2 |-> include_s2, outcome |-> "returned",
                                     count |-> Len(df_all)]
    /\ UNCHANGED raw_dir
    /\ UNCHANGED <<pvars, avars, cvars, lvars, gvars>>

BuildFeaturesMonthly == \E include_s2 \in BOOLEAN : build_features_monthly(include_s2)

NextFusion == BuildFeaturesMonthly

InitF ==
    InitFusion /\ InitPredictorIdle /\ InitAnalysisIdle /\ InitCorrelationIdle
    /\ InitLoaderIdle /\ InitGeeIdle

SpecFusion == InitF /\ [][NextFusion]_vars

\* ------------------------------------------- claims on build_features_monthly
DatesOf(rows) == {rows[i].date : i \in DOMAIN rows}

\* the dates of all tables that were joined
FrameDates == UNION {DatesOf(frames[i].rows) : i \in DOMAIN frames}

ValueColumn(frame) == CHOOSE c \in frame.columns : c # "date"

Returned == build_call.outcome = "returned"

\* C16: the master table has at most one row per date and its rows are in
\* strictly increasing date order, whatever the sources hold.
C16_MasterDatesStrictlyIncreasing ==
    out_path.exists =>
        \A i \in DOMAIN out_path.rows : \A j \in DOMAIN out_path.rows :
            i < j => DateLT(out_path.rows[i].date, out_path.rows[j].date)

\* a source that repeats a month joined with one that is out of date order
C16_Witness ==
    /\ Returned
    /\ Len(out_path.rows) >= 3
    /\ \E i \in DOMAIN frames : Cardinality(DatesOf(frames[i].rows)) < Len(frames[i].rows)
    /\ \E i \in DOMAIN frames : \E a \in DOMAIN frames[i].rows : \E b \in DOMAIN frames[i].rows :
          a < b /\ DateLT(frames[i].rows[b].date, frames[i].rows[a].date)

\* C17 as stated: the dates of the master table are the union of the dates of
\* the joined tables; two tables with disjoint dates give a master table as
\* long as both together; a column is null on exactly the dates for which its
\* source has no row.
C17_LengthIsSumAndNullIffNoRow ==
    (Returned /\ frames # <<>>) =>
        /\ DatesOf(out_path.rows) = FrameDates
        /\ (/\ Len(frames) = 2
            /\ DatesOf(frames[1].rows) \cap DatesOf(frames[2].rows) = {})
              => Len(out_path.rows) = Len(frames[1].rows) + Len(frames[2].rows)
        /\ \A i \in DOMAIN frames : \A k \in DOMAIN out_path.rows :
              ValueColumn(frames[i]) \in out_path.columns =>
                  (out_path.rows[k][ValueColumn(frames[i])] = NaN
                      <=> out_path.rows[k].date \notin DatesOf(frames[i].rows))

\* the mean of the non-empty cells a joined table holds for a date
SourceMean(frame, date) ==
    LET OnDate(r) == r.date = date
        on_date == SelectSeq(frame.rows, OnDate)
        cells == NonNull([i \in DOMAIN on_date |-> on_date[i][ValueColumn(frame)]])
    IN  IF cells = <<>> THEN NaN ELSE SumSeq(cells) \div Len(cells)

\* C17, amended: the dates of the master table are the union of the dates of
\* the joined tables and its length is the number of distinct dates in that
\* union; every value column the master table carries is null on each date for
\* which its source has no row, and on a date the source has rows for it holds
\* the mean of the source's non-empty cells of that date (null if none).
C17_DatesAreUnionAndCellsAreSourceMeans ==
    (Returned /\ frames # <<>>) =>
        /\ DatesOf(out_path.rows) = FrameDates
        /\ Len(out_path.rows) = Cardinality(FrameDates)
        /\ \A i \in DOMAIN frames : \A k \in DOMAIN out_path.rows :
              ValueColumn(frames[i]) \in out_path.columns =>
                  out_path.rows[k][ValueColumn(frames[i])]
                      = SourceMean(frames[i], out_path.rows[k].date)

\* two joined tables with disjoint dates, one of them repeating a month
C17_Witness ==
    /\ Returned
    /\ Len(frames) = 2
    /\ frames[1].rows # <<>>
    /\ frames[2].rows # <<>>
    /\ DatesOf(frames[1].rows) \cap DatesOf(frames[2].rows) = {}
    /\ Len(out_path.rows) < Len(frames[1].rows) + Len(frames[2].rows)
    /\ "NDVI" \in out_path.columns
    /\ \E k \in DOMAIN out_path.rows : out_path.rows[k].NDVI = NaN

\* the file read for the k-th source
SourceFile(k) == IF Sources[k].file = "gpm" THEN raw_dir[GpmPath] ELSE raw_dir[Sources[k].file]

\* the k-th source is asked for and its file holds a date and a value column
Available(k) ==
    /\ k = 5 => build_call.include_s2
    /\ SourceFile(k).exists
    /\ "date" \in SourceFile(k).columns
    /\ SourceFile(k).columns \cap Sources[k].candidates # {}

\* the months of START..END the k-th source has rows for
MonthsOfSource(k) ==
    {<<r.date[1], r.date[2], 1>> :
        r \in {x \in Range(SourceFile(k).rows) : x.date # NaT /\ InRange(x)}}

\* C18: a run returns whatever sources are absent; its table covers the
\* months of exactly the sources that are available, the returned count is the
\* number of rows written, and with no source available the table written has
\* only the date column, no row, and the count is 0.
C18_AbsentSourcesAreTolerated ==
    build_call.outcome # "" =>
        /\ Returned
        /\ out_path.exists
        /\ build_call.count = Len(out_path.rows)
        /\ DatesOf(out_path.rows) = UNION {MonthsOfSource(k) : k \in {j \in 1..5 : Available(j)}}
        /\ (\A k \in 1..5 : ~ Available(k)) =>
              out_path = Table({"date"}, <<>>) /\ build_call.count = 0

\* no file at all in data/raw
C18_Witness ==
    /\ Returned
    /\ \A name \in DOMAIN raw_dir : ~ raw_dir[name].exists
    /\ out_path = Table({"date"}, <<>>)
    /\ build_call.count = 0

\* ------------------------------------------- further claims on analyze_bloom_season
\* the non-null NDVI values of the raw table
ValidNdvi == NdviColumn(CleanNdvi(ndvi_csv.rows))

\* C19: the sensitivity table written in global mode has exactly three rows,
\* for the quantiles 0.65, 0.75 and 0.80 in that order; in each row
\* years_total is the number of calendar years with at least one valid
\* observation and years_with_bloom the number of those years with at least
\* one observation >= that quantile of the whole series.
C19_SensitivityTableCountsYears ==
    sensitivity_csv.exists =>
        /\ Len(sensitivity_csv.rows) = 3
        /\ sensitivity_csv.rows[1].quantile = 13
        /\ sensitivity_csv.rows[2].quantile = 15
        /\ sensitivity_csv.rows[3].quantile = 16
        /\ \A k \in 1..3 :
              LET row == sensitivity_csv.rows[k]
                  t == Quantile20(ValidNdvi, row.quantile)
              IN  /\ row.years_total = Cardinality(ObservedYears)
                  /\ row.years_with_bloom =
                        Cardinality({y \in ObservedYears :
                                        \E r \in ObservationsOf(y) : 20 * r.NDVI >= t})

\* two observed years, the counts differing between the quantiles
C19_Witness ==
    /\ sensitivity_csv.exists
    /\ last_call = [mode |-> "global", outcome |-> "returned"]
    /\ sensitivity_csv.rows[1].years_total = 2
    /\ sensitivity_csv.rows[1].years_with_bloom = 2
    /\ sensitivity_csv.rows[3].years_with_bloom = 1

\* C20: a call made while the raw NDVI file is missing ends with
\* FileNotFoundError, in any mode, and leaves the two bloom-window tables and
\* the sensitivity table as they were.
C20_MissingSourceWritesNothing ==
    [][(~ ndvi_csv.exists /\ last_call' # last_call) =>
          /\ last_call'.outcome = "FileNotFoundError"
          /\ UNCHANGED <<bloom_global_csv, bloom_annual_csv, sensitivity_csv>>]_vars

\* tables of an earlier run are on disk when the call fails
C20_Witness ==
    /\ ~ ndvi_csv.exists
    /\ last_call.outcome = "FileNotFoundError"
    /\ bloom_global_csv.exists
    /\ bloom_annual_csv.exists
    /\ Len(sensitivity_csv.rows) = 3

\* C21: a call of analyze_bloom_season with a mode other than "global" or
\* "annual" (the raw file being present) ends with ValueError, the condition
\* raised for an invalid argument, instead of computing and writing a table.
C21_UnknownModeIsRejected ==
    (last_call.mode \notin {"", "global", "annual"} /\ ndvi_csv.exists) =>
        last_call.outcome = "ValueError"

\* C22: a run of analyze_bloom_season in the mode of the preceding, returned
\* run leaves the bloom-window tables equal to what that run wrote (the raw
\* table never changes between runs), and a run in one of the two modes
\* leaves the table of the other mode as it was.
C22_RepeatedRunWritesSameTables ==
    [][/\ (repeated' /\ last_call.outcome = "returned") =>
              UNCHANGED <<bloom_global_csv, bloom_annual_csv, sensitivity_csv>>
       /\ last_call'.mode = "global" => UNCHANGED bloom_annual_csv
       /\ last_call'.mode = "annual" => UNCHANGED bloom_global_csv]_vars

\* a second global run after a global and an annual run wrote their records
C22_Witness ==
    /\ repeated
    /\ last_call = [mode |-> "global", outcome |-> "returned"]
    /\ bloom_global_csv.exists
    /\ bloom_global_csv.rows # <<>>
    /\ bloom_annual_csv.exists
    /\ Len(bloom_annual_csv.rows) = 2

----------------------------------------------------------------------------
\* The monthly table loaders: load_month_csv (src/src/utils.py) and
\* _load_month_csv (src/src/data_collector.py) applied to one csv file.

MaxCsvRows == 3

\* utils.py lines 13-17: to_datetime(errors="coerce"), then
\* dt.to_period("M").dt.to_timestamp(); a date that does not parse stays NaT
ensure_monthly_date(rows) ==
    [i \in DOMAIN rows |->
        [rows[i] EXCEPT !.date = IF @ = NaT THEN NaT ELSE <<@[1], @[2], 1>>]]

\* mutant: the last row of every date is kept
RECURSIVE DropDuplicatesKeepLast(_)
DropDuplicatesKeepLast(rows) ==
    IF rows = <<>> THEN <<>>
    ELSE LET last == rows[Len(rows)]
             Other(r) == r.date # last.date
         IN  DropDuplicatesKeepLast(SelectSeq(SubSeq(rows, 1, Len(rows) - 1), Other))
             \o <<last>>

\* utils.py line 41: drop_duplicates(subset=["date"]), keep="first"; null
\* dates count as equal
RECURSIVE drop_duplicates(_)
drop_duplicates(rows) ==
    IF rows = <<>> THEN <<>>
    ELSE LET Other(r) == r.date # Head(rows).date
         IN  <<Head(rows)>> \o drop_duplicates(SelectSeq(Tail(rows), Other))

\* utils.py line 41: sort_values("date"), na_position="last"
sort_values(rows) ==
    LET HasDate(r) == r.date # NaT
        NoDate(r) == r.date = NaT
    IN  SortByDate(SelectSeq(rows, HasDate)) \o SelectSeq(rows, NoDate)

\* the value_cols_map of the call: file column -> canonical column
value_cols_map == [ndvi |-> "NDVI"]

\* utils.py lines 20-42
load_month_csv(f) ==
    IF ~ f.exists THEN [outcome |-> "FileNotFoundError", columns |-> {}, rows |-> <<>>]
    ELSE IF "date" \notin f.columns
    THEN [outcome |-> "ValueError", columns |-> {}, rows |-> <<>>]
    ELSE LET renamed == {c \in DOMAIN value_cols_map : c \in f.columns}
             keep == {"date"} \cup {value_cols_map[c] : c \in renamed}
             monthly == ensure_monthly_date(f.rows)
             kept == [i \in DOMAIN monthly |->
                         IF renamed = {} THEN [date |-> monthly[i].date]
                         ELSE monthly[i]]
         IN  [outcome |-> "returned", columns |-> keep,
              rows |-> sort_values(drop_duplicates(kept))]

\* inputs: a csv file of up to MaxCsvRows rows; a date is any day of three
\* months, or a string that does not parse; the value tells the source row
CsvDates == {<<2020, 1, 1>>, <<2020, 1, 15>>, <<2020, 2, 1>>, <<2019, 12, 20>>, NaT}
CsvRows(dates) == [i \in DOMAIN dates |-> [date |-> dates[i], value |-> 1000 * i]]
CsvDateSeqs == UNION {[1..n -> CsvDates] : n \in 0..MaxCsvRows}
CsvFiles ==
    {Absent,
     Table({"ndvi"}, <<>>),
     Table({"date", "EVI"}, CsvRows(<<<<2020, 1, 15>>, <<2020, 1, 1>>>>))}
    \cup {Table({"date", "ndvi"}, CsvRows(dates)) : dates \in CsvDateSeqs}

InitLoader ==
    /\ month_csv \in CsvFiles
    /\ month_table = [outcome |-> "", columns |-> {}, rows |-> <<>>]
    /\ fusion_table = [outcome |-> "", columns |-> {}, rows |-> <<>>]

LoadMonthCsv ==
    /\ month_table' = load_month_csv(month_csv)
    /\ UNCHANGED <<month_csv, fusion_table>>
    /\ UNCHANGED <<pvars, avars, cvars, fvars, gvars>>

\* _load_month_csv with the colmap of the NDVI source (data_collector.py
\* lines 260-263)
LoadMonthCsvFusion ==
    /\ LET t == _load_month_csv(month_csv,
                    [file |-> "modis_ndvi", candidates |-> {"NDVI", "ndvi", "modis_ndvi"},
                     column |-> "NDVI"])
       IN  fusion_table' = [outcome |-> IF t.error = "" THEN "returned" ELSE t.error,
                            columns |-> t.columns, rows |-> t.rows]
    /\ UNCHANGED <<month_csv, month_table>>
    /\ UNCHANGED <<pvars, avars, cvars, fvars, gvars>>

NextLoader == LoadMonthCsv \/ LoadMonthCsvFusion

InitL ==
    InitLoader /\ InitPredictorIdle /\ InitAnalysisIdle /\ InitCorrelationIdle
    /\ InitFusionIdle /\ InitGeeIdle

SpecLoader == InitL /\ [][NextLoader]_vars

\* the source rows of a month, in source order
FirstOfMonthInSource(d) ==
    LET monthly == ensure_monthly_date(month_csv.rows)
        k == CHOOSE k \in DOMAIN monthly :
                 /\ monthly[k].date = d
                 /\ \A j \in 1..(k - 1) : monthly[j].date # d
    IN  month_csv.rows[k]

\* C23: in the table returned by load_month_csv every date is the first day
\* of its month, the dates are strictly ascending (so a month has at most one
\* row), and the row of a month carries the value of the first row of that
\* month in the source; an absent source raises FileNotFoundError.  A row
\* whose date did not parse carries no date; the statement is about the dates.
C23_MonthlyTableIsTruncatedUniqueSorted ==
    /\ (month_table.outcome # "" /\ ~ month_csv.exists) =>
           month_table.outcome = "FileNotFoundError"
    /\ month_table.outcome = "returned" =>
           LET rows == month_table.rows
           IN  /\ \A i \in DOMAIN rows : rows[i].date # NaT => rows[i].date[3] = 1
               /\ \A i, j \in DOMAIN rows :
                      (i < j /\ rows[i].date # NaT /\ rows[j].date # NaT) =>
                          DateLT(rows[i].date, rows[j].date)
               /\ \A i \in DOMAIN rows :
                      (rows[i].date # NaT /\ "NDVI" \in month_table.columns) =>
                          rows[i].value = FirstOfMonthInSource(rows[i].date).value
               /\ \A k \in DOMAIN month_csv.rows :
                      month_csv.rows[k].date # NaT =>
                          \E i \in DOMAIN rows :
                              rows[i].date = <<month_csv.rows[k].date[1],
                                               month_csv.rows[k].date[2], 1>>

\* three source rows out of order, two of one month (the later one first in
\* the file), loaded into two rows
C23_Witness ==
    /\ month_table.outcome = "returned"
    /\ Len(month_csv.rows) = 3
    /\ month_csv.rows[1].date = <<2020, 2, 1>>
    /\ month_csv.rows[2].date = <<2020, 1, 15>>
    /\ month_csv.rows[3].date = <<2020, 1, 1>>
    /\ Len(month_table.rows) = 2
    /\ month_table.rows[1] = [date |-> <<2020, 1, 1>>, value |-> 2000]

\* C24: no row with a null date is present in the table returned by
\* load_month_csv or by _load_month_csv.
C24_NoNullDateIsLoaded ==
    /\ month_table.outcome = "returned" =>
           \A i \in DOMAIN month_table.rows : month_table.rows[i].date # NaT
    /\ fusion_table.outcome = "returned" =>
           \A i \in DOMAIN fusion_table.rows : fusion_table.rows[i].date # NaT


\* C25: in the combined table of a returned train_bloom_predictor call a row
\* has status "forecast" exactly when its date is after the last observed
\* date (the row came from the projection loop), and forecast_rows returns
\* exactly as many rows as the horizon has months.
C25_ForecastStatusIffProjected ==
    pc = "done" =>
        /\ \A i \in DOMAIN result.table :
               result.table[i].status = "forecast"
                   <=> DateLT(MaxDate([j \in DOMAIN df |-> df[j].date]),
                              result.table[i].date)
        /\ Len(ForecastRowsOf(result)) = HorizonMonths(forecast_years)


\* C26: a call of correlate_rain_ndvi either raises an error or writes a
\* correlation table with one record per lag 0..max_lag in ascending order.
C26_WritesFullTableOrRaises ==
    corr_call.outcome # "" =>
        \/ corr_call.outcome \in {"FileNotFoundError", "KeyError", "ValueError"}
        \/ /\ corr_call.outcome = "returned"
           /\ correlation_csv.exists
           /\ Len(correlation_csv.rows) = corr_call.max_lag + 1
           /\ \A k \in DOMAIN correlation_csv.rows :
                  correlation_csv.rows[k].lag_months = k - 1


\* C27: whenever the projection loop of train_bloom_predictor is reached the
\* table has at least 13 rows, so the initial history is the filled NDVI
\* column without front padding, and in every iteration the history is at
\* least as long as each lag (1, 2, 12): _add_lag_features takes its first
\* branch, the lag value being the element `lag` positions from the end.
C27_LagFallbacksUnreachable ==
    pc \in {"projecting", "done"} =>
        /\ Len(df) >= 13
        /\ PadHistory(FillNaMedian(df)) = FillNaMedian(df)
        /\ Len(ndvi_history) = Len(df) + Len(forecast_rows)
        /\ \A k \in DOMAIN forecast_rows :
               \A j \in DOMAIN ndvi_lags :
                   /\ Len(df) + k - 1 >= ndvi_lags[j]
                   /\ forecast_rows[k].lags[ndvi_lags[j]] =
                          HistoryWithPredictions[Len(df) + k - ndvi_lags[j]]

\* the shortest table that reaches the loop: 13 rows, the lag-12 feature of
\* the first projected month is the second value, not the first
C27_Witness ==
    /\ pc = "done"
    /\ Len(df) = 13
    /\ forecast_rows[1].lags[12] = df[2].NDVI
    /\ df[2].NDVI # df[1].NDVI


\* C28: the table written in annual mode has exactly one record for every
\* calendar year with at least one non-null observation and no other record,
\* each with a non-null window, the maximum of the year being >= the year's
\* own 75th percentile.
C28_AnnualTableCoversEveryObservedYear ==
    (bloom_annual_csv.exists /\ ndvi_csv.exists) =>
        /\ \A y \in ObservedYears :
               LET values == {r.NDVI : r \in ObservationsOf(y)}
                   top == CHOOSE v \in values : \A w \in values : w <= v
               IN  /\ 20 * top >= Quantile20(NdviColumn(Group(CleanNdvi(ndvi_csv.rows), y)), 15)
                   /\ Len(RecordsOfYear(bloom_annual_csv.rows, y)) = 1
        /\ Len(bloom_annual_csv.rows) = Cardinality(ObservedYears)
        /\ \A j \in DOMAIN bloom_annual_csv.rows :
               /\ bloom_annual_csv.rows[j].year \in ObservedYears
               /\ bloom_annual_csv.rows[j].bloom_start # NaT
               /\ bloom_annual_csv.rows[j].bloom_end # NaT

\* two observed years, one of them with an observation below its own
\* percentile, each with its record
C28_Witness ==
    /\ last_call = [mode |-> "annual", outcome |-> "returned"]
    /\ Cardinality(ObservedYears) = 2
    /\ Len(bloom_annual_csv.rows) = 2
    /\ \E y \in ObservedYears :
           \E r \in ObservationsOf(y) :
               20 * r.NDVI < Quantile20(NdviColumn(Group(CleanNdvi(ndvi_csv.rows), y)), 15)


----------------------------------------------------------------------------
\* The Earth Engine initialization: initialize_gee (src/src/gee_auth.py),
\* ensure_initialized (src/main.py) and startup_event (src/backend/main.py).

MaxInitCalls == 6

\* ee.Initialize returns, raises ee.EEException, or raises something else
EeOutcomes == {"ok", "EEException", "Exception"}

\* mutant: ee.Initialize is called whatever the flag says
InitializeGeeUnguarded(flag, ee_outcome) ==
    IF ee_outcome = "ok" THEN [flag |-> TRUE, ee_called |-> TRUE, raised |-> ""]
    ELSE [flag |-> flag, ee_called |-> TRUE, raised |-> ee_outcome]

\* gee_auth.py lines 10-29, `flag` being _initialized: the flag afterwards,
\* whether ee.Initialize was called, and the exception that leaves the call
initialize_gee(flag, ee_outcome) ==
    IF flag THEN [flag |-> TRUE, ee_called |-> FALSE, raised |-> ""]
    ELSE IF ee_outcome = "ok" THEN [flag |-> TRUE, ee_called |-> TRUE, raised |-> ""]
    ELSE [flag |-> FALSE, ee_called |-> TRUE, raised |-> ee_outcome]

\* main.py lines 49-60; _ensure_dirs (lines 43-46) may fail with OSError
ensure_initialized(force, ee_outcome, dirs_ok) ==
    IF _INITIALIZED /\ ~ force
    THEN [gee |-> _initialized, main |-> _INITIALIZED, ee_called |-> FALSE, raised |-> ""]
    ELSE LET g == initialize_gee(_initialized, ee_outcome)
         IN  IF g.raised # ""
             THEN [gee |-> g.flag, main |-> _INITIALIZED, ee_called |-> g.ee_called,
                   raised |-> g.raised]
             ELSE IF ~ dirs_ok
             THEN [gee |-> g.flag, main |-> _INITIALIZED, ee_called |-> g.ee_called,
                   raised |-> "OSError"]
             ELSE [gee |-> g.flag, main |-> TRUE, ee_called |-> g.ee_called, raised |-> ""]

\* the bookkeeping of one ee.Initialize call
CountInitialize(ee_called, ee_outcome) ==
    /\ ee_called => ee_initialize_calls < MaxInitCalls
    /\ ee_initialize_calls' = ee_initialize_calls + (IF ee_called THEN 1 ELSE 0)
    /\ ee_successes' = ee_successes + (IF ee_called /\ ee_outcome = "ok" THEN 1 ELSE 0)

\* a direct call of initialize_gee (dataset_inspector.py line 60)
InitializeGee ==
    \E ee_outcome \in EeOutcomes :
        LET g == initialize_gee(_initialized, ee_outcome)
        IN  /\ CountInitialize(g.ee_called, ee_outcome)
            /\ _initialized' = g.flag
            /\ gee_call' = [op |-> "initialize_gee", force |-> FALSE,
                            outcome |-> IF g.raised = "" THEN "returned" ELSE g.raised,
                            raised |-> g.raised, ee_called |-> g.ee_called]
            /\ UNCHANGED _INITIALIZED
            /\ UNCHANGED <<pvars, avars, cvars, fvars, lvars>>

EnsureInitialized ==
    \E force \in BOOLEAN, ee_outcome \in EeOutcomes, dirs_ok \in BOOLEAN :
        LET e == ensure_initialized(force, ee_outcome, dirs_ok)
        IN  /\ CountInitialize(e.ee_called, ee_outcome)
            /\ _initialized' = e.gee
            /\ _INITIALIZED' = e.main
            /\ gee_call' = [op |-> "ensure_initialized", force |-> force,
                            outcome |-> IF e.raised = "" THEN "returned" ELSE e.raised,
                            raised |-> e.raised, ee_called |-> e.ee_called]
            /\ UNCHANGED <<pvars, avars, cvars, fvars, lvars>>

\* backend/main.py lines 54-62: ensure_initialized() with every exception
\* swallowed
StartupEvent ==
    \E ee_outcome \in EeOutcomes, dirs_ok \in BOOLEAN :
        LET e == ensure_initialized(FALSE, ee_outcome, dirs_ok)
        IN  /\ CountInitialize(e.ee_called, ee_outcome)
            /\ _initialized' = e.gee
            /\ _INITIALIZED' = e.main
            /\ gee_call' = [op |-> "startup_event", force |-> FALSE,
                            outcome |-> "returned",
                            raised |-> e.raised, ee_called |-> e.ee_called]
            /\ UNCHANGED <<pvars, avars, cvars, fvars, lvars>>

NextGee == InitializeGee \/ EnsureInitialized \/ StartupEvent

InitG ==
    InitGeeIdle /\ InitPredictorIdle /\ InitAnalysisIdle /\ InitCorrelationIdle
    /\ InitFusionIdle /\ InitLoaderIdle

SpecGee == InitG /\ [][NextGee]_vars

\* C30: over any sequence of initialize_gee, ensure_initialized and
\* startup_event calls a flag is true only after an ee.Initialize call that
\* returned (and _INITIALIZED only with _initialized); a call in which
\* ee.Initialize raised ends with that exception and both flags false; while
\* _initialized is false every call that gets to initialize_gee calls
\* ee.Initialize again; and once an ee.Initialize call has returned no later
\* call, forced or not, calls it again.
C30_InitializedOnlyOnceAfterSuccess ==
    []((_initialized \/ _INITIALIZED) => (_initialized /\ ee_successes = 1))
    /\ [][/\ (gee_call'.ee_called /\ gee_call'.raised \in {"EEException", "Exception"}) =>
                 /\ ~ _initialized' /\ ~ _INITIALIZED'
                 /\ gee_call'.op # "startup_event" => gee_call'.outcome = gee_call'.raised
          /\ ~ _initialized => ee_initialize_calls' = ee_initialize_calls + 1
          /\ ee_successes >= 1 => ee_initialize_calls' = ee_initialize_calls]_vars

\* a failed call, a successful one, then ensure_initialized(force=True), which
\* returned without calling ee.Initialize
C30_Witness ==
    /\ gee_call = [op |-> "ensure_initialized", force |-> TRUE, outcome |-> "returned",
                   raised |-> "", ee_called |-> FALSE]
    /\ _initialized /\ _INITIALIZED
    /\ ee_initialize_calls = 2
    /\ ee_successes = 1

====
